---- MODULE Spec2Model ----
(***************************************************************************)
(* Rerun admission queue of line-task-server.                              *)
(*                                                                         *)
(* The store is PostgreSQL; every handler runs its SQL statements in       *)
(* autocommit mode on a pooled connection (no explicit transaction), so    *)
(* each statement is one atomic step and the statements of concurrent      *)
(* handlers interleave freely.                                             *)
(***************************************************************************)
EXTENDS Integers, Sequences, FiniteSets, TLC

(***************************************************************************)
(* Bounds                                                                  *)
(***************************************************************************)
\* number of concurrent chat deliveries that call enqueue_rerun (one call each)
NumEnq == 2
\* largest value of the logical clock behind NOW()
MaxNow == 4

Deliveries == 1..NumEnq
\* request_id values: gen_random_uuid() is modelled as the next unused id
ReqIds == 1..NumEnq
Times == 1..MaxNow
\* the clock when the handlers start; the seeded tasks were created before
Start == MaxNow - 1

\* SQL NULL of the columns that hold a reading of NOW() (never negative) or
\* an exit code: locked_at, started_at, finished_at, exit_code of the queue
\* and agreed_terms_at of users
NULL == -1
\* tasks.expires_at and the values computed for it: a timestamptz holds any
\* instant, negative ones too, so SQL NULL (None in Python) is no integer
NoInstant == [null |-> TRUE]
Instant(t) == [epoch |-> t]
\* SQL NULL of a text column (texts are sequences, see below)
NullText == <<"NULL">>
\* an absent table row
NoRow == [absent |-> TRUE]
NoTask == [absent |-> TRUE]
\* no row fetched / no response yet
NoResult == [none |-> TRUE]
\* SQL NULL of a date column
NoDate == [null |-> TRUE]

(***************************************************************************)
(* Rerun statuses (admin.py RERUN_STATUSES, db.py status column)           *)
(***************************************************************************)
RERUN_STATUSES == {"queued", "running", "done", "failed", "canceled"}
ActiveStatuses == {"queued", "running"}
TerminalStatuses == {"done", "failed", "canceled"}

(***************************************************************************)
(* Texts are sequences of characters; "fw" is the full-width space U+3000, *)
(* "sp" the ASCII space, "tab" the tabulator, "lf" the line feed.  A word   *)
(* that no operation takes apart (a uuid, a machine name, a version label) *)
(* stands as one element.                                                  *)
(***************************************************************************)
\* PostgreSQL's \s
IsSpace(c) == c \in {"sp", "tab", "lf"}

\* Python's str.isspace of one character: Unicode whitespace, U+3000 included
isspace(c) == c \in {"sp", "tab", "lf", "fw"}

\* str.strip() of a character sequence
RECURSIVE lstrip(_)
lstrip(s) == IF s # <<>> /\ isspace(Head(s)) THEN lstrip(Tail(s)) ELSE s
RECURSIVE rstrip(_)
rstrip(s) ==
    IF s # <<>> /\ isspace(s[Len(s)]) THEN rstrip(SubSeq(s, 1, Len(s) - 1)) ELSE s
strip(s) == rstrip(lstrip(s))

\* the cased letters of the texts handled here
LowerLetters == <<"a", "b", "c", "d", "e", "f", "g", "h", "i", "j", "k", "l", "m",
                  "n", "o", "p", "q", "r", "s", "t", "u", "v", "w", "x", "y", "z">>
UpperLetters == <<"A", "B", "C", "D", "E", "F", "G", "H", "I", "J", "K", "L", "M",
                  "N", "O", "P", "Q", "R", "S", "T", "U", "V", "W", "X", "Y", "Z">>
LetterIndex(letters, c) == {i \in 1..26 : letters[i] = c}

\* str.lower() and str.upper(): letter by letter, every other character kept
lower(s) ==
    [i \in 1..Len(s) |->
        IF LetterIndex(UpperLetters, s[i]) # {}
        THEN LowerLetters[CHOOSE k \in LetterIndex(UpperLetters, s[i]) : TRUE]
        ELSE s[i]]
upper(s) ==
    [i \in 1..Len(s) |->
        IF LetterIndex(LowerLetters, s[i]) # {}
        THEN UpperLetters[CHOOSE k \in LetterIndex(LowerLetters, s[i]) : TRUE]
        ELSE s[i]]

\* str(n) of an int
Digits == <<"0", "1", "2", "3", "4", "5", "6", "7", "8", "9">>
RECURSIVE str_nat(_)
str_nat(n) == IF n < 10 THEN <<Digits[n + 1]>>
              ELSE str_nat(n \div 10) \o <<Digits[(n % 10) + 1]>>
str(n) == IF n < 0 THEN <<"-">> \o str_nat(-n) ELSE str_nat(n)

\* the value of a text of decimal digits
DigitValue(c) == CHOOSE k \in 0..9 : Digits[k + 1] = c
IsDigit(c) == \E k \in 1..10 : Digits[k] = c
RECURSIVE int_digits(_)
int_digits(text) ==
    IF Len(text) = 1 THEN DigitValue(text[1])
    ELSE int_digits(SubSeq(text, 1, Len(text) - 1)) * 10 + DigitValue(text[Len(text)])

\* the digits int() reads: decimal digits with single underscores between them
IsDigitGroups(ds) ==
    /\ ds # <<>>
    /\ \A i \in 1..Len(ds) : IsDigit(ds[i]) \/ ds[i] = "_"
    /\ IsDigit(ds[1]) /\ IsDigit(ds[Len(ds)])
    /\ \A i \in 1..(Len(ds) - 1) : ~(ds[i] = "_" /\ ds[i + 1] = "_")
WithoutUnderscores(ds) == SelectSeq(ds, LAMBDA c : c # "_")

\* Python None where a text is expected
None == <<"None">>

\* `x or default` of a text that may be None, and of a text column that may
\* be NULL
OrText(text, default) == IF text = None \/ text = <<>> THEN default ELSE text
OrNull(text, default) == IF text = <<"NULL">> \/ text = <<>> THEN default ELSE text

\* translate(name, '<U+3000>', ' ')
translate_identity(s) == s
translate(s) == [i \in 1..Len(s) |-> IF s[i] = "fw" THEN "sp" ELSE s[i]]

RECURSIVE regexp_replace(_)
\* regexp_replace(x, '\s+', ' ', 'g'): every maximal whitespace run becomes one space
regexp_replace(s) ==
    IF s = <<>> THEN <<>>
    ELSE IF IsSpace(Head(s))
         THEN IF Len(s) > 1 /\ IsSpace(s[2])
              THEN regexp_replace(Tail(s))
              ELSE <<"sp">> \o regexp_replace(Tail(s))
         ELSE <<Head(s)>> \o regexp_replace(Tail(s))

NormalizeName(s) == regexp_replace(translate(s))

(***************************************************************************)
(* The tasks table at start-up (rows created earlier through the admin UI) *)
(***************************************************************************)
Users == {"U1", "U2"}
\* the tasks in place at start-up
SeedTaskIds == {"T1", "T2"}
\* task_id values that gen_random_uuid() hands out to new tasks, in order
NewTaskIds == <<"T3">>
TaskIds == SeedTaskIds \cup {NewTaskIds[i] : i \in 1..Len(NewTaskIds)}

TaskSeed(en) ==
    [t \in TaskIds |->
        IF t = "T1"
        THEN [user_id |-> "U1", name |-> <<"a">>, enabled |-> en[t],
              pc_name |-> <<"pcA">>, created_at |-> 1, updated_at |-> 1,
              expires_at |-> NoInstant, payment_date |-> NoDate, payment_amount |-> NullText]
        ELSE IF t = "T2"
        THEN [user_id |-> "U1", name |-> <<"a", "sp", "b">>, enabled |-> en[t],
              pc_name |-> <<"pcB">>, created_at |-> 2, updated_at |-> 2,
              expires_at |-> NoInstant, payment_date |-> NoDate, payment_amount |-> NullText]
        ELSE NoTask]

\* names a user may type before the rerun suffix
TypedNames == {<<"a">>, <<"a", "fw", "b">>, <<"b">>}

VARIABLES
    tasks,      \* tasks table: task_id -> row or NoTask (deleted)
    queue,      \* task_rerun_queue: request_id -> row or NoRow
    nextId,     \* next request_id that gen_random_uuid() hands out
    now,        \* logical clock read by NOW()
    epc,        \* enqueue_rerun: position of each delivery
    erow,       \* enqueue_rerun: row returned by sql_find
    eres,       \* enqueue_rerun: returned dict
    cpc, crid,  \* admin_cancel_rerun: position, request_id
    dpc, drid,  \* admin_delete_rerun: position, request_id
    resp,       \* the latest response of an admin handler: handler and HTTP status
    held,       \* request_ids the external runner has claimed and not yet reported
    secret,         \* STRIPE_WEBHOOK_SECRET of the process environment
    utcnow,         \* wall clock, seconds since the epoch
    stripe_events,  \* stripe_events table: event_id -> row or NoRow
    spc,            \* stripe_webhook: position of each delivery
    sevent,         \* stripe_webhook: the event parsed from the request body
    sinserted,      \* stripe_webhook: what the ledger INSERT returned (inserted)
    sloc,           \* stripe_webhook: locals kept across statements
    sres,           \* stripe_webhook: returned dict or raised HTTP error
    users,             \* users table: user_id -> row or NoRow
    terms_agreements,  \* terms_agreements table: id -> row or NoRow
    lpc,               \* line_webhook (routers/webhook.py): position of each delivery
    lev,               \* line_webhook: the event being handled
    lsent,             \* line_webhook: messages passed to reply_message, in order
    rich_menus,        \* line_api.py: the rich menus the environment configures
    SEEN_USERS,        \* main.py: the in-memory list of seen users
    rpc,               \* record_user: position of each delivery
    rloc,              \* record_user: its arguments
    apc,               \* admin task handlers: position of each request in progress
    aloc,              \* admin task handlers: locals kept across the two statements
    nextTask,          \* index of the next task_id that gen_random_uuid() hands out
    served             \* number of requests the admin task and queue pages have received

vars == <<tasks, queue, nextId, now, epc, erow, eres, cpc, crid,
          dpc, drid, resp, held,
          secret, utcnow, stripe_events, spc, sevent, sinserted, sloc, sres,
          users, terms_agreements, lpc, lev, lsent, rich_menus, SEEN_USERS, rpc, rloc,
          apc, aloc, nextTask, served>>

chatVars == <<users, terms_agreements, lpc, lev, lsent, rich_menus>>
seenVars == <<SEEN_USERS, rpc, rloc>>
lineVars == <<chatVars, seenVars>>
adminVars == <<apc, aloc, nextTask, served>>

stripeVars == <<secret, utcnow, stripe_events, spc, sevent, sinserted, sloc, sres>>
queueVars == <<queue, nextId, now, epc, erow, eres, cpc, crid, dpc, drid, resp, held>>

enqVars == <<epc, erow, eres>>
cancelVars == <<cpc, crid>>
deleteVars == <<dpc, drid>>

(***************************************************************************)
(* Helpers over the tables                                                 *)
(***************************************************************************)
Rows(q) == {r \in ReqIds : q[r] # NoRow}
RowsOfTask(q, t) == {r \in Rows(q) : q[r].task_id = t}
ActiveRowsOfTask(q, t) == {r \in RowsOfTask(q, t) : q[r].status \in ActiveStatuses}

\* sql_find: tasks of the user whose normalized name equals the normalized
\* typed name, newest created_at first, LIMIT 1
FindMatches(tk, user_id, task_name) ==
    {t \in TaskIds : /\ tk[t] # NoTask
                     /\ tk[t].user_id = user_id
                     /\ NormalizeName(tk[t].name) = NormalizeName(task_name)}

sql_find_oldest(tk, user_id, task_name) ==
    LET m == FindMatches(tk, user_id, task_name)
    IN  {t \in m : \A u \in m : tk[t].created_at <= tk[u].created_at}
sql_find(tk, user_id, task_name) ==
    LET m == FindMatches(tk, user_id, task_name)
    IN  IF m = {} THEN {}
        ELSE {t \in m : \A u \in m : tk[u].created_at <= tk[t].created_at}

\* `if not bool(row["enabled"])`
IsDisabled_never(row) == FALSE
IsDisabled(row) == ~row.enabled

\* the partial unique index uq_rerun_active_task rejects a row for task t
\* while another row of t has status queued or running
uq_rerun_active_task_queuedOnly(q, t) ==
    \E r \in RowsOfTask(q, t) : q[r].status = "queued"
uq_rerun_active_task_allStatuses(q, t) ==
    RowsOfTask(q, t) # {}
uq_rerun_active_task_missing(q, t) == FALSE
uq_rerun_active_task(q, t) ==
    \E r \in RowsOfTask(q, t) : q[r].status \in {"queued", "running"}

\* `if row["status"] != "queued"` in admin_cancel_rerun
CancelRefused_activeAllowed(status) == status \notin {"queued", "running"}
CancelRefused(status) == status # "queued"

\* `if row["status"] in ("queued", "running")` in admin_delete_rerun
DeleteRefused_runningOnly(status) == status = "running"
DeleteRefused(status) == status \in {"queued", "running"}

\* time passes between statements
Tick ==
    /\ now < MaxNow
    /\ now' = now + 1
    /\ UNCHANGED <<tasks, queue, nextId, enqVars, cancelVars, deleteVars,
                   resp, held, stripeVars, lineVars, adminVars>>

(***************************************************************************)
(* enqueue_rerun (webhook.py): fetchrow(sql_find), the two early returns,  *)
(* then fetchval(sql_insert)                                               *)
(***************************************************************************)
DisplayName(user_id) == "user"

\* the dicts enqueue_rerun returns
NotFoundResult == [ok |-> FALSE, reason |-> "not_found"]
DisabledResult == [ok |-> FALSE, reason |-> "disabled"]
AlreadyPendingResult_generic == [ok |-> FALSE, reason |-> "error"]
AlreadyPendingResult == [ok |-> FALSE, reason |-> "already_pending"]
OkResult(request_id, row) ==
    [ok |-> TRUE, request_id |-> request_id,
     task_id |-> row.task_id, pc_name |-> row.pc_name]

NewRow_defaultPc(row, user_id, requested_by, t) ==
    [task_id |-> row.task_id, user_id |-> user_id, pc_name |-> <<"default">>,
     requested_by |-> requested_by, requested_at |-> t, status |-> "queued",
     locked_at |-> NULL, locked_by |-> NullText, started_at |-> NULL,
     finished_at |-> NULL, exit_code |-> NULL]
NewRow(row, user_id, requested_by, t) ==
    [task_id |-> row.task_id, user_id |-> user_id, pc_name |-> row.pc_name,
     requested_by |-> requested_by, requested_at |-> t, status |-> "queued",
     locked_at |-> NULL, locked_by |-> NullText, started_at |-> NULL,
     finished_at |-> NULL, exit_code |-> NULL]

enqueue_rerun_find(p, user_id, task_name) ==
    /\ epc[p] = "start"
    /\ LET found == sql_find(tasks, user_id, task_name) IN
       IF found = {}
       THEN /\ eres' = [eres EXCEPT ![p] = NotFoundResult]
            /\ epc' = [epc EXCEPT ![p] = "done"]
            /\ UNCHANGED erow
       ELSE \E t \in found :
            LET row == [task_id |-> t, pc_name |-> tasks[t].pc_name,
                        enabled |-> tasks[t].enabled, user_id |-> user_id]
            IN  /\ erow' = [erow EXCEPT ![p] = row]
                /\ IF IsDisabled(row)
                   THEN /\ eres' = [eres EXCEPT ![p] = DisabledResult]
                        /\ epc' = [epc EXCEPT ![p] = "done"]
                   ELSE /\ epc' = [epc EXCEPT ![p] = "insert"]
                        /\ UNCHANGED eres
    /\ UNCHANGED <<tasks, queue, nextId, now, cancelVars, deleteVars,
                   resp, held, stripeVars, lineVars, adminVars>>

enqueue_rerun_insert(p) ==
    /\ epc[p] = "insert"
    /\ LET row == erow[p] IN
       IF uq_rerun_active_task(queue, row.task_id)
       THEN \* ON CONFLICT DO NOTHING: no row returned
            /\ eres' = [eres EXCEPT ![p] = AlreadyPendingResult]
            /\ epc' = [epc EXCEPT ![p] = "done"]
            /\ UNCHANGED <<queue, nextId>>
       ELSE IF tasks[row.task_id] = NoTask
       THEN \* foreign key task_id REFERENCES tasks: asyncpg raises
            /\ epc' = [epc EXCEPT ![p] = "raised"]
            /\ UNCHANGED <<eres, queue, nextId>>
       ELSE /\ queue' = [queue EXCEPT ![nextId] =
                            NewRow(row, row.user_id, DisplayName(row.user_id), now)]
            /\ nextId' = nextId + 1
            /\ eres' = [eres EXCEPT ![p] = OkResult(nextId, row)]
            /\ epc' = [epc EXCEPT ![p] = "done"]
    /\ UNCHANGED <<tasks, now, erow, cancelVars, deleteVars,
                   resp, held, stripeVars, lineVars, adminVars>>

(***************************************************************************)
(* admin_cancel_rerun (admin.py): SELECT status, two early errors, UPDATE  *)
(***************************************************************************)
Response(handler, code) == [handler |-> handler, status |-> code]

admin_cancel_rerun_select(request_id) ==
    /\ cpc = "idle"
    /\ IF queue[request_id] = NoRow
       THEN /\ resp' = Response("admin_cancel_rerun", 404)
            /\ UNCHANGED <<cpc, crid>>
       ELSE IF CancelRefused(queue[request_id].status)
       THEN /\ resp' = Response("admin_cancel_rerun", 400)
            /\ UNCHANGED <<cpc, crid>>
       ELSE /\ cpc' = "update"
            /\ crid' = request_id
            /\ UNCHANGED resp
    /\ UNCHANGED <<tasks, queue, nextId, now, enqVars, deleteVars, held, stripeVars, lineVars, adminVars>>

\* UPDATE task_rerun_queue SET status='canceled', finished_at=NOW() WHERE request_id=$1
admin_cancel_rerun_update_disablesTask ==
    /\ cpc = "update"
    /\ queue' = IF queue[crid] = NoRow THEN queue
                ELSE [queue EXCEPT ![crid].status = "canceled",
                                   ![crid].finished_at = now]
    /\ tasks' = IF queue[crid] = NoRow THEN tasks
                ELSE [tasks EXCEPT ![queue[crid].task_id].enabled = FALSE]
    /\ resp' = Response("admin_cancel_rerun", 303)
    /\ cpc' = "idle"
    /\ crid' = 0
    /\ UNCHANGED <<nextId, now, enqVars, deleteVars, held, stripeVars, lineVars, adminVars>>
admin_cancel_rerun_update ==
    /\ cpc = "update"
    /\ queue' = IF queue[crid] = NoRow THEN queue
                ELSE [queue EXCEPT ![crid].status = "canceled",
                                   ![crid].finished_at = now]
    /\ resp' = Response("admin_cancel_rerun", 303)
    /\ cpc' = "idle"
    /\ crid' = 0
    /\ UNCHANGED <<tasks, nextId, now, enqVars, deleteVars, held, stripeVars, lineVars, adminVars>>

(***************************************************************************)
(* admin_delete_rerun (admin.py): SELECT status, two early errors, DELETE  *)
(***************************************************************************)
admin_delete_rerun_select(request_id) ==
    /\ dpc = "idle"
    /\ IF queue[request_id] = NoRow
       THEN /\ resp' = Response("admin_delete_rerun", 404)
            /\ UNCHANGED <<dpc, drid>>
       ELSE IF DeleteRefused(queue[request_id].status)
       THEN /\ resp' = Response("admin_delete_rerun", 400)
            /\ UNCHANGED <<dpc, drid>>
       ELSE /\ dpc' = "delete"
            /\ drid' = request_id
            /\ UNCHANGED resp
    /\ UNCHANGED <<tasks, queue, nextId, now, enqVars, cancelVars, held, stripeVars, lineVars, adminVars>>

\* DELETE FROM task_rerun_queue WHERE request_id=$1
admin_delete_rerun_delete ==
    /\ dpc = "delete"
    /\ queue' = [queue EXCEPT ![drid] = NoRow]
    /\ resp' = Response("admin_delete_rerun", 303)
    /\ dpc' = "idle"
    /\ drid' = 0
    /\ UNCHANGED <<tasks, nextId, now, enqVars, cancelVars, held, stripeVars, lineVars, adminVars>>

(***************************************************************************)
(* External runner (not in this repository): claims a queued request       *)
(* (queued -> running, stamping locked_at / locked_by / started_at) and    *)
(* later reports it (running -> done | failed)                             *)
(***************************************************************************)
runner_claim(request_id) ==
    /\ queue[request_id] # NoRow
    /\ queue[request_id].status = "queued"
    /\ queue' = [queue EXCEPT ![request_id].status = "running",
                              ![request_id].locked_at = now,
                              ![request_id].locked_by = queue[request_id].pc_name,
                              ![request_id].started_at = now]
    /\ held' = held \cup {request_id}
    /\ UNCHANGED <<tasks, nextId, now, enqVars, cancelVars, deleteVars, resp,
                   stripeVars, lineVars, adminVars>>

runner_report(request_id, outcome) ==
    /\ request_id \in held
    /\ held' = held \ {request_id}
    /\ queue' = IF queue[request_id] # NoRow /\ queue[request_id].status = "running"
                THEN [queue EXCEPT ![request_id].status = outcome,
                                   ![request_id].finished_at = now,
                                   ![request_id].exit_code =
                                       IF outcome = "done" THEN 0 ELSE 1]
                ELSE queue
    /\ UNCHANGED <<tasks, nextId, now, enqVars, cancelVars, deleteVars, resp,
                   stripeVars, lineVars, adminVars>>

(***************************************************************************)
(* Payment webhook (stripe_webhook.py).                                    *)
(*                                                                         *)
(* Instants are seconds since the epoch, in the range of a 32-bit integer  *)
(* (1901-12-13 to 2038-01-19); a datetime in Asia/Tokyo is a record of its *)
(* civil fields, sod being the second of the day and fold the attribute of *)
(* that name (1 for the second pass through a repeated hour).  Texts that  *)
(* the handler takes apart are sequences of characters, a task's           *)
(* 36-character uuid text standing as one element.                         *)
(***************************************************************************)
\* number of concurrent deliveries to POST /stripe/webhook (one request each)
NumStripe == 2
StripeDeliveries == 1..NumStripe

\* JST = ZoneInfo("Asia/Tokyo"): UTC+09:00, and UTC+10:00 in the summers of
\* 1948 to 1951; the instants at which the offset changes and the offset, in
\* seconds, from then on.  (The change from local mean time in 1887 lies
\* before the instants handled here.)
JST ==
    <<[at |-> -683802000, offset |-> 36000], [at |-> -672310800, offset |-> 32400],
      [at |-> -654771600, offset |-> 36000], [at |-> -640861200, offset |-> 32400],
      [at |-> -620298000, offset |-> 36000], [at |-> -609411600, offset |-> 32400],
      [at |-> -588848400, offset |-> 36000], [at |-> -577962000, offset |-> 32400]>>

\* the offset in force after the last change whose threshold, the instant of
\* the change plus shift, is not later than x
OffsetAt(x, shift) ==
    LET past == {i \in DOMAIN JST : JST[i].at + shift <= x}
    IN  IF past = {} THEN 32400
        ELSE JST[CHOOSE i \in past : \A j \in past : j <= i].offset

\* JST.utcoffset of an instant
utcoffset(ts) == OffsetAt(ts, 0)

\* JST.utcoffset of a wall-clock time (seconds from 1970-01-01 00:00 on the
\* wall clock): a time the clocks skipped or showed twice takes the earlier
\* offset when fold is 0 and the later one when fold is 1
utcoffset_wall(wall, fold) == OffsetAt(wall, IF fold = 1 THEN 32400 ELSE 36000)

\* calendar.monthrange(year, month)[1]
monthrange(year, month) ==
    IF month = 2
    THEN IF (year % 4 = 0 /\ year % 100 # 0) \/ year % 400 = 0 THEN 29 ELSE 28
    ELSE IF month \in {4, 6, 9, 11} THEN 30 ELSE 31

\* proleptic Gregorian civil date of the day that is z days after 1970-01-01
CivilFromDays(z) ==
    LET zz == z + 719468
        era == zz \div 146097
        doe == zz - era * 146097
        yoe == (doe - doe \div 1460 + doe \div 36524 - doe \div 146096) \div 365
        doy == doe - (365 * yoe + yoe \div 4 - yoe \div 100)
        mp == (5 * doy + 2) \div 153
        d == doy - (153 * mp + 2) \div 5 + 1
        m == IF mp < 10 THEN mp + 3 ELSE mp - 9
        y == yoe + era * 400 + (IF m <= 2 THEN 1 ELSE 0)
    IN  [year |-> y, month |-> m, day |-> d]

\* days from 1970-01-01 to the civil date
DaysFromCivil(year, month, day) ==
    LET y == IF month <= 2 THEN year - 1 ELSE year
        era == y \div 400
        yoe == y - era * 400
        mp == IF month > 2 THEN month - 3 ELSE month + 9
        doy == (153 * mp + 2) \div 5 + day - 1
        doe == yoe * 365 + yoe \div 4 - yoe \div 100 + doy
    IN  era * 146097 + doe - 719468

\* datetime.fromtimestamp(ts, tz=timezone.utc).astimezone(JST)
astimezone(ts) ==
    LET local == ts + utcoffset(ts)
        c == CivilFromDays(local \div 86400)
        again == \E i \in DOMAIN JST :
                    JST[i].offset = 32400 /\ JST[i].at <= ts /\ ts < JST[i].at + 3600
    IN  [year |-> c.year, month |-> c.month, day |-> c.day, sod |-> local % 86400,
         fold |-> IF again THEN 1 ELSE 0]

\* the wall-clock time of a datetime, which is what two datetimes of the same
\* tzinfo are compared by
WallClock(dt) == DaysFromCivil(dt.year, dt.month, dt.day) * 86400 + dt.sod

\* the instant of a datetime in JST, as stored in a TIMESTAMPTZ column
timestamptz(dt) == WallClock(dt) - utcoffset_wall(WallClock(dt), dt.fold)

\* created_dt_jst.date()
date(dt) == [year |-> dt.year, month |-> dt.month, day |-> dt.day]

\* _add_months(dt, months)
add_months_noClamp(dt, months) ==
    LET month0 == dt.month + months
        year == dt.year + (month0 - 1) \div 12
        month == ((month0 - 1) % 12) + 1
    IN  [dt EXCEPT !.year = year, !.month = month]
add_months(dt, months) ==
    LET month0 == dt.month + months
        year == dt.year + (month0 - 1) \div 12
        month == ((month0 - 1) % 12) + 1
        last_day == monthrange(year, month)
        day == IF dt.day < last_day THEN dt.day ELSE last_day
    IN  [dt EXCEPT !.year = year, !.month = month, !.day = day]

\* absent plan (Python None)
NoPlan == <<"None">>

\* _extract_task_id_and_plan(client_reference_id)
extract_task_id_and_plan(client_reference_id) ==
    LET s == strip(client_reference_id)
        us == {i \in 1..Len(s) : s[i] = "_"}
    IN  IF s = <<>> THEN [task_id |-> <<>>, plan |-> NoPlan]
        ELSE IF us # {}
        THEN LET k == CHOOSE i \in us : \A j \in us : j <= i
             IN  [task_id |-> SubSeq(s, 1, k - 1), plan |-> SubSeq(s, k + 1, Len(s))]
        ELSE [task_id |-> s, plan |-> NoPlan]

\* `plan in {"1m", "3m", "6m"}`
PlanRecognized(plan) == plan \in {<<"1", "m">>, <<"3", "m">>, <<"6", "m">>}

\* int(plan[0])
PlanMonths(plan) ==
    CASE plan[1] = "1" -> 1
      [] plan[1] = "3" -> 3
      [] plan[1] = "6" -> 6

\* texts that PostgreSQL accepts for `$1::uuid`
UuidTexts == {"T1", "T2", "T3", "T9"}
IsUuid(task_id_str) == Len(task_id_str) = 1 /\ task_id_str[1] \in UuidTexts

\* hmac.new(secret, f"{t}." + raw_body, sha256).hexdigest(): distinct inputs
\* give distinct digests
hmac_sha256(key, t, raw) == <<key, t, raw>>

\* _parse_stripe_signature(header): the items of the header by key; t and v1
\* are required
NoHeader == <<>>
InvalidSig == [invalid |-> TRUE]
parse_stripe_signature(header) ==
    LET ts == {i \in 1..Len(header) : header[i].k = "t"}
        v1s == {i \in 1..Len(header) : header[i].k = "v1"}
    IN  IF ts = {} \/ v1s = {} THEN InvalidSig
        ELSE [timestamp |-> header[CHOOSE i \in ts : \A j \in ts : j <= i].v,
              v1 |-> header[CHOOSE i \in v1s : \A j \in v1s : j <= i].v]

tolerance_sec == 300

\* _verify_stripe_signature(raw_body, header, secret): the error raised, or "ok"
Abs(x) == IF x < 0 THEN -x ELSE x
verify_stripe_signature_strict(raw_body, header, key, now_ts) ==
    LET sig == parse_stripe_signature(header) IN
    IF sig = InvalidSig THEN "invalid stripe signature header"
    ELSE IF Abs(now_ts - sig.timestamp) >= tolerance_sec THEN "timestamp outside tolerance"
    ELSE IF hmac_sha256(key, sig.timestamp, raw_body) # sig.v1 THEN "signature mismatch"
    ELSE "ok"
verify_stripe_signature_acceptAll(raw_body, header, key, now_ts) == "ok"
verify_stripe_signature(raw_body, header, key, now_ts) ==
    LET sig == parse_stripe_signature(header) IN
    IF sig = InvalidSig THEN "invalid stripe signature header"
    ELSE IF Abs(now_ts - sig.timestamp) > tolerance_sec THEN "timestamp outside tolerance"
    ELSE IF hmac_sha256(key, sig.timestamp, raw_body) # sig.v1 THEN "signature mismatch"
    ELSE "ok"

\* a request body that is not JSON
NotJson == [notjson |-> TRUE]

\* JSON values of the fields the handler reads with .get(): null (also an
\* absent key), true or false, an integer, a number written with a fraction
\* (whole + tenths / 10, whole not negative, tenths in 0..9, so 0.0 too), a
\* string.  An integer beyond 32 bits is kept by where it lies for datetime:
\* "last_hours" is one of 253402268400..253402300799, the last nine hours of
\* the year 9999 in UTC, "out_of_range" one beyond the years 1 to 9999, such
\* as 10**12.
JsonNull == [json |-> "null"]
JsonBool(b) == [json |-> "bool", bool |-> b]
JsonInt(n) == [json |-> "int", int |-> n]
JsonBigInt(range) == [json |-> "bigint", range |-> range]
JsonFloat(whole, tenths) == [json |-> "float", whole |-> whole, tenths |-> tenths]
JsonStr(text) == [json |-> "str", str |-> text]

\* Python truthiness of a JSON value
bool(j) ==
    CASE j.json = "null" -> FALSE
      [] j.json = "bool" -> j.bool
      [] j.json = "int" -> j.int # 0
      [] j.json = "bigint" -> TRUE
      [] j.json = "float" -> j.whole # 0 \/ j.tenths # 0
      [] j.json = "str" -> j.str # <<>>

\* `a or b`
Or(a, b) == IF bool(a) THEN a ELSE b

\* the events a provider (or anyone else) may post; id "" stands for an event
\* without an id
EventIds == {"evt_1", "evt_2", ""}
PlanTexts == {<<"1", "m">>, <<"3", "m">>, <<"6", "m">>, <<"1", "2", "m">>}
ClientReferenceIds ==
    {<<>>, <<"T1">>, <<"T9", "_", "3", "m">>, <<"bad", "_", "x", "_", "3", "m">>}
    \cup {<<"T1", "_">> \o pl : pl \in PlanTexts}
\* absent, 2024-01-31T10:00:00Z and 2024-05-01T00:00:00Z
CreatedValues == {JsonNull, JsonInt(1706695200), JsonInt(1714521600)}

\* an event: created is the "created" of the session object, event_created
\* the "created" of the event itself
EventOf(id, type, ref, created, event_created, amount_total, currency) ==
    [id |-> id, type |-> type, created |-> event_created,
     data |-> [object |-> [client_reference_id |-> ref, amount_total |-> amount_total,
                           currency |-> currency, created |-> created]]]

\* the usual event: 12000 jpy, created an integer or absent
Event(id, type, ref, created) ==
    EventOf(id, type, ref, created, JsonNull, JsonInt(12000), JsonStr(<<"j", "p", "y">>))

\* events whose amount, currency or creation time is unusual
OddEvent(created, event_created, amount_total, currency) ==
    EventOf("evt_1", "checkout.session.completed", <<"T1", "_", "3", "m">>,
            created, event_created, amount_total, currency)
OddEvents ==
    {OddEvent(JsonInt(1706695200), JsonNull, a, c) :
        a \in {JsonInt(500), JsonInt(0), JsonNull, JsonFloat(12, 5)},
        c \in {JsonStr(<<"u", "s", "d">>), JsonNull}}
    \cup {OddEvent(cr, ecr, JsonInt(12000), JsonStr(<<"J", "p", "y">>)) :
            cr \in {JsonInt(0), JsonNull, JsonFloat(0, 0), JsonStr(<<>>), JsonBool(FALSE)},
            ecr \in {JsonNull, JsonInt(0), JsonInt(1706695200), JsonStr(<<"s", "o", "o", "n">>),
                     JsonStr(<<"1", "7">>), JsonStr(<<"sp", "+", "1", "_", "7">>),
                     JsonStr(<<"1", "_", "_", "7">>), JsonFloat(1714521600, 5),
                     JsonFloat(0, 5), JsonBool(TRUE), JsonInt(-616929800),
                     JsonBigInt("out_of_range"), JsonBigInt("last_hours")}}
    \* paid 1969-10-01 08:59:59 in Asia/Tokyo: three months on is the instant -1
    \cup {OddEvent(JsonInt(-7948801), JsonNull, JsonInt(12000),
                    JsonStr(<<"J", "p", "y">>))}

Events ==
    {Event("evt_1", "checkout.session.completed", ref, created) :
        ref \in ClientReferenceIds, created \in CreatedValues}
    \cup {Event("evt_2", "checkout.session.completed", <<"T1", "_">> \o pl, created) :
        pl \in {<<"3", "m">>, <<"6", "m">>}, created \in CreatedValues \ {JsonNull}}
    \cup {Event("", "checkout.session.completed", ref, JsonInt(1706695200)) :
        ref \in {<<"T1", "_", "3", "m">>, <<"bad", "_", "x", "_", "3", "m">>}}
    \cup {Event(id, "invoice.paid", <<>>, JsonNull) : id \in {"evt_1", ""}}
    \cup {Event("evt_1", "checkout.session.completed", <<"T1", "_", "3", "m">>, created) :
            created \in {JsonInt(1706713199), JsonInt(1706713200)}}

\* bodies of concurrent deliveries, and bodies of a single delivery
PairBodies == Events \cup {NotJson}
RawBodies == Events \cup OddEvents \cup {NotJson}

\* signing keys: the configured secret and one the sender guessed
SigningKeys == {"whsec", "guess"}
SigTimes(t) == {t, t - 300, t - 301, t + 300, t + 301}
Headers(raw, t) ==
    {NoHeader, <<[k |-> "t", v |-> t]>>}
    \cup {<<[k |-> "t", v |-> st], [k |-> "v1", v |-> hmac_sha256(key, st, raw)]>> :
            st \in SigTimes(t), key \in SigningKeys}
\* the Stripe-Signature header the provider computes for a body
SignedHeader(raw, key, t) ==
    <<[k |-> "t", v |-> t], [k |-> "v1", v |-> hmac_sha256(key, t, raw)]>>

\* headers of concurrent deliveries: none, signed now with either key, and
\* signed too long ago
PairHeaders(raw, t) ==
    {NoHeader}
    \cup {<<[k |-> "t", v |-> t], [k |-> "v1", v |-> hmac_sha256(key, t, raw)]>> :
            key \in SigningKeys}
    \cup {<<[k |-> "t", v |-> t - 301], [k |-> "v1", v |-> hmac_sha256("whsec", t - 301, raw)]>>}

\* (obj.get("currency") or "").upper()
currency_text(currency) == upper(IF bool(currency) THEN currency.str ELSE <<>>)

\* str() of a JSON value that is not null and within 32 bits
str_json(j) ==
    CASE j.json = "int" -> str(j.int)
      [] j.json = "bool" -> IF j.bool THEN <<"T", "r", "u", "e">>
                                      ELSE <<"F", "a", "l", "s", "e">>
      [] j.json = "float" -> str(j.whole) \o <<".">> \o str(j.tenths)
      [] j.json = "str" -> j.str

\* payment_amount: "" at first; str(amount_total) of an int (a bool is one),
\* followed by a space and the currency when there is one; str() of any
\* other value but None
payment_amount_text(amount_total, currency) ==
    IF amount_total.json \in {"int", "bool"}
    THEN IF currency # <<>>
         THEN str_json(amount_total) \o <<"sp">> \o currency
         ELSE str_json(amount_total)
    ELSE IF amount_total.json # "null" THEN str_json(amount_total)
    ELSE <<>>

HTTPException(status_code, detail) == [status_code |-> status_code, detail |-> detail]

\* f"Invalid signature: {e}"
InvalidSignatureDetail(e) ==
    CASE e = "invalid stripe signature header"
           -> "Invalid signature: invalid stripe signature header"
      [] e = "timestamp outside tolerance"
           -> "Invalid signature: timestamp outside tolerance"
      [] e = "signature mismatch" -> "Invalid signature: signature mismatch"

\* `if not secret` on the stripped STRIPE_WEBHOOK_SECRET
SecretMissing_never(key) == FALSE
SecretMissing(key) == key = ""

\* event ids a stripe_events row can have
LedgerIds == EventIds \ {""}

\* INSERT INTO stripe_events ... ON CONFLICT (event_id) DO NOTHING RETURNING
\* event_id: the table after the statement
RecordIfNew_upsert(ledger, event_id, event) ==
    [ledger EXCEPT ![event_id] = [event_id |-> event_id, payload |-> event]]
RecordIfNew_dropped(ledger, event_id, event) == ledger
RecordIfNew(ledger, event_id, event) ==
    IF ledger[event_id] # NoRow THEN ledger
    ELSE [ledger EXCEPT ![event_id] = [event_id |-> event_id, payload |-> event]]

\* what the INSERT hands back through RETURNING event_id: the event_id when
\* the row was inserted, no row on a conflict (ledger is the table before the
\* INSERT)
Returning(ledger, event_id) ==
    IF ledger[event_id] # NoRow THEN NoRow ELSE [event_id |-> event_id]

\* `if not inserted:` the delivery stops as duplicate when the INSERT
\* returned no row (an event_id that reaches the INSERT is not empty)
IsDuplicate_never(inserted) == FALSE
IsDuplicate_always(inserted) == TRUE
IsDuplicate(inserted) == inserted = NoRow

\* base = max(created_dt_jst, expires_at.astimezone(JST)) when expires_at is
\* set: both carry the tzinfo JST and are compared by their wall-clock times,
\* the first being kept when they are equal; the instant of the one chosen
BaseInstant_paidOnly(created_ts, expires_at) == created_ts
BaseInstant(created_ts, expires_at) ==
    IF expires_at = NoInstant THEN created_ts
    ELSE IF WallClock(astimezone(expires_at.epoch)) > WallClock(astimezone(created_ts))
    THEN expires_at.epoch ELSE created_ts

\* new_expires_at as passed to the UPDATE: expires_at as read, or the month
\* addition to the base for a plan in {"1m", "3m", "6m"}
NewExpiresAt(plan, created_ts, expires_at) ==
    IF PlanRecognized(plan)
    THEN Instant(timestamptz(add_months(astimezone(BaseInstant(created_ts, expires_at)),
                                        PlanMonths(plan))))
    ELSE expires_at

\* COALESCE($4, expires_at): the first argument unless it is NULL
COALESCE(a, b) == IF a = NoInstant THEN b ELSE a

\* the dicts stripe_webhook returns
DuplicateResult == [ok |-> TRUE, duplicate |-> TRUE]
IgnoredResult(event_type) == [ok |-> TRUE, ignored |-> event_type]
MissingReferenceResult == [ok |-> TRUE, warning |-> "missing client_reference_id"]
TaskNotFoundResult(task_id_str) ==
    [ok |-> TRUE, warning |-> "task not found", task_id |-> task_id_str]
AppliedResult(loc) ==
    [ok |-> TRUE, task_id |-> loc.task_id_str, plan |-> loc.plan,
     payment_date |-> loc.payment_date, payment_amount |-> loc.payment_amount]

\* int(x) of a JSON value: the integer, or Raises.  A number with a fraction
\* is truncated, True is 1, a text is stripped of whitespace and may carry a
\* sign and underscores between its digits; an integer beyond 32 bits is
\* kept as it is.
Raises == [raises |-> TRUE]
IntOf(n) == [value |-> n]
BigIntOf(range) == [big |-> range]
int(j) ==
    CASE j.json = "int" -> IntOf(j.int)
      [] j.json = "bool" -> IntOf(IF j.bool THEN 1 ELSE 0)
      [] j.json = "bigint" -> BigIntOf(j.range)
      [] j.json = "float" -> IntOf(j.whole)
      [] j.json = "null" -> Raises
      [] j.json = "str" ->
            LET t == strip(j.str)
                signed == t # <<>> /\ t[1] \in {"+", "-"}
                ds == IF signed THEN Tail(t) ELSE t
            IN  IF IsDigitGroups(ds)
                THEN IntOf(IF signed /\ t[1] = "-"
                           THEN -int_digits(WithoutUnderscores(ds))
                           ELSE int_digits(WithoutUnderscores(ds)))
                ELSE Raises

\* created_dt_utc: fromtimestamp(int(created_ts), tz=utc) when created_ts is
\* truthy, the processing time when it is not, when int() raises or when
\* fromtimestamp rejects the integer as out of range; an instant of the last
\* nine hours of the year 9999 is accepted
CreatedInstant_nullOnly(created_ts, now_ts) ==
    IF created_ts.json = "null" \/ int(created_ts) = Raises
          \/ int(created_ts) = BigIntOf("out_of_range")
    THEN IntOf(now_ts) ELSE int(created_ts)
CreatedInstant(created_ts, now_ts) ==
    IF ~bool(created_ts) THEN IntOf(now_ts)
    ELSE IF int(created_ts) = Raises THEN IntOf(now_ts)
    ELSE IF int(created_ts) = BigIntOf("out_of_range") THEN IntOf(now_ts)
    ELSE int(created_ts)

\* created_dt_utc.astimezone(JST) raises OverflowError where the time in
\* Asia/Tokyo would lie in the year 10000
AstimezoneOverflows(created_dt_utc) == created_dt_utc = BigIntOf("last_hours")

\* task_id_str and plan of the event's client_reference_id
Reference(event) ==
    extract_task_id_and_plan(strip(event.data.object.client_reference_id))

\* the locals computed before the tasks table is read, or Raises
Locals(event, now_ts) ==
    LET obj == event.data.object
        ex == Reference(event)
        created_dt_utc == CreatedInstant(Or(obj.created, event.created), now_ts)
    IN  IF AstimezoneOverflows(created_dt_utc) THEN Raises
        ELSE [task_id_str |-> ex.task_id, plan |-> ex.plan,
              created_ts |-> created_dt_utc.value,
              payment_date |-> date(astimezone(created_dt_utc.value)),
              payment_amount |-> payment_amount_text(obj.amount_total,
                                                     currency_text(obj.currency)),
              new_expires_at |-> NoInstant]

\* the secret check, up to `await request.body()`
stripe_webhook_start(d) ==
    /\ spc[d] = "start"
    /\ IF SecretMissing(secret)
       THEN /\ sres' = [sres EXCEPT ![d] =
                           HTTPException(500, "STRIPE_WEBHOOK_SECRET is not set")]
            /\ spc' = [spc EXCEPT ![d] = "done"]
       ELSE /\ spc' = [spc EXCEPT ![d] = "body"]
            /\ UNCHANGED sres
    /\ UNCHANGED <<tasks, queueVars, lineVars, adminVars, secret, utcnow, stripe_events, sevent,
                   sinserted, sloc>>

\* what follows the ledger without a further await: the event type, the
\* reference and the locals, the clock being read where the event has no
\* usable creation time
AfterLedger(d, event) ==
    IF event.type # "checkout.session.completed"
    THEN /\ sres' = [sres EXCEPT ![d] = IgnoredResult(event.type)]
         /\ spc' = [spc EXCEPT ![d] = "done"]
         /\ UNCHANGED sloc
    ELSE IF Reference(event).task_id = <<>>
    THEN /\ sres' = [sres EXCEPT ![d] = MissingReferenceResult]
         /\ spc' = [spc EXCEPT ![d] = "done"]
         /\ UNCHANGED sloc
    ELSE IF Locals(event, utcnow) = Raises
    THEN \* OverflowError leaves the handler: the server answers 500
         /\ sres' = [sres EXCEPT ![d] = HTTPException(500, "Internal Server Error")]
         /\ spc' = [spc EXCEPT ![d] = "raised"]
         /\ UNCHANGED sloc
    ELSE /\ sloc' = [sloc EXCEPT ![d] = Locals(event, utcnow)]
         /\ spc' = [spc EXCEPT ![d] = "select"]
         /\ UNCHANGED sres

\* the body has arrived: header, signature (the clock is read here), JSON and
\* the event id; an event with an id goes on to the awaited ledger INSERT, one
\* without an id straight to what follows it
stripe_webhook_verify(d, header, raw) ==
    /\ spc[d] = "body"
    /\ IF header = NoHeader
       THEN /\ sres' = [sres EXCEPT ![d] =
                           HTTPException(400, "Missing Stripe-Signature header")]
            /\ spc' = [spc EXCEPT ![d] = "done"]
            /\ UNCHANGED <<sevent, sloc>>
       ELSE IF verify_stripe_signature(raw, header, secret, utcnow) # "ok"
       THEN /\ sres' = [sres EXCEPT ![d] =
                           HTTPException(400, InvalidSignatureDetail(
                               verify_stripe_signature(raw, header, secret, utcnow)))]
            /\ spc' = [spc EXCEPT ![d] = "done"]
            /\ UNCHANGED <<sevent, sloc>>
       ELSE IF raw = NotJson
       THEN /\ sres' = [sres EXCEPT ![d] = HTTPException(400, "Invalid JSON")]
            /\ spc' = [spc EXCEPT ![d] = "done"]
            /\ UNCHANGED <<sevent, sloc>>
       ELSE /\ sevent' = [sevent EXCEPT ![d] = raw]
            /\ IF raw.id # ""
               THEN /\ spc' = [spc EXCEPT ![d] = "insert"]
                    /\ UNCHANGED <<sres, sloc>>
               ELSE AfterLedger(d, raw)
    /\ UNCHANGED <<tasks, queueVars, lineVars, adminVars, secret, utcnow, stripe_events, sinserted>>

\* INSERT INTO stripe_events ... ON CONFLICT DO NOTHING RETURNING event_id;
\* leaving `async with pool.acquire()` hands the connection back, and the
\* handler is suspended there with `inserted` in hand
stripe_webhook_insert(d) ==
    /\ spc[d] = "insert"
    /\ stripe_events' = RecordIfNew(stripe_events, sevent[d].id, sevent[d])
    /\ sinserted' = [sinserted EXCEPT ![d] = Returning(stripe_events, sevent[d].id)]
    /\ spc' = [spc EXCEPT ![d] = "locals"]
    /\ UNCHANGED <<tasks, queueVars, lineVars, adminVars, secret, utcnow, sevent, sloc, sres>>

\* the connection is released: the duplicate return, and what follows up to
\* the SELECT on tasks
stripe_webhook_locals(d) ==
    /\ spc[d] = "locals"
    /\ IF IsDuplicate(sinserted[d])
       THEN /\ sres' = [sres EXCEPT ![d] = DuplicateResult]
            /\ spc' = [spc EXCEPT ![d] = "done"]
            /\ UNCHANGED sloc
       ELSE AfterLedger(d, sevent[d])
    /\ UNCHANGED <<tasks, queueVars, lineVars, adminVars, secret, utcnow, stripe_events, sevent,
                   sinserted>>

\* the wall clock when the deliveries begin: 2024-05-01T14:59:59Z, one second
\* before midnight in Asia/Tokyo
UtcNowValues == {1714575599}

\* the wall clock moves on while a delivery awaits
MaxClockTicks == 1
ClockTick ==
    /\ \E t \in UtcNowValues : utcnow < t + MaxClockTicks
    /\ utcnow' = utcnow + 1
    /\ UNCHANGED <<tasks, queueVars, lineVars, adminVars, secret, stripe_events, spc, sevent,
                   sinserted, sloc, sres>>

\* SELECT task_id, expires_at FROM tasks WHERE task_id = $1::uuid, then the
\* computation of new_expires_at
stripe_webhook_select(d) ==
    /\ spc[d] = "select"
    /\ LET loc == sloc[d] IN
       IF ~IsUuid(loc.task_id_str)
       THEN \* the cast fails: asyncpg raises, the server answers 500
            /\ sres' = [sres EXCEPT ![d] = HTTPException(500, "Internal Server Error")]
            /\ spc' = [spc EXCEPT ![d] = "raised"]
            /\ UNCHANGED sloc
       ELSE IF loc.task_id_str[1] \notin TaskIds \/ tasks[loc.task_id_str[1]] = NoTask
       THEN /\ sres' = [sres EXCEPT ![d] = TaskNotFoundResult(loc.task_id_str)]
            /\ spc' = [spc EXCEPT ![d] = "done"]
            /\ UNCHANGED sloc
       ELSE /\ sloc' = [sloc EXCEPT ![d].new_expires_at =
                           NewExpiresAt(loc.plan, loc.created_ts,
                                        tasks[loc.task_id_str[1]].expires_at)]
            /\ spc' = [spc EXCEPT ![d] = "update"]
            /\ UNCHANGED sres
    /\ UNCHANGED <<tasks, queueVars, lineVars, adminVars, secret, utcnow, stripe_events, sevent,
                   sinserted>>

\* UPDATE tasks SET payment_date = $2, payment_amount = $3, expires_at =
\* COALESCE($4, expires_at), updated_at = NOW() WHERE task_id = $1::uuid
UpdateTask_everyTask(tk, loc, t_now) ==
    [t \in TaskIds |->
        IF tk[t] = NoTask THEN tk[t]
        ELSE [tk[t] EXCEPT !.payment_date = loc.payment_date,
                           !.payment_amount = loc.payment_amount,
                           !.expires_at = COALESCE(loc.new_expires_at, tk[t].expires_at),
                           !.updated_at = t_now]]
UpdateTask(tk, loc, t_now) ==
    LET t == loc.task_id_str[1] IN
    IF tk[t] = NoTask THEN tk
    ELSE [tk EXCEPT ![t].payment_date = loc.payment_date,
                    ![t].payment_amount = loc.payment_amount,
                    ![t].expires_at = COALESCE(loc.new_expires_at, tk[t].expires_at),
                    ![t].updated_at = t_now]

\* the UPDATE, then the return
stripe_webhook_update(d) ==
    /\ spc[d] = "update"
    /\ tasks' = UpdateTask(tasks, sloc[d], now)
    /\ sres' = [sres EXCEPT ![d] = AppliedResult(sloc[d])]
    /\ spc' = [spc EXCEPT ![d] = "done"]
    /\ UNCHANGED <<queueVars, lineVars, adminVars, secret, utcnow, stripe_events, sevent,
                   sinserted, sloc>>

\* the worker process dies between the ledger INSERT and the UPDATE of tasks:
\* after an INSERT that recorded the event, before the SELECT or before the
\* UPDATE; the request gets no answer
stripe_webhook_crash(d) ==
    /\ \/ spc[d] = "locals" /\ ~IsDuplicate(sinserted[d])
       \/ spc[d] \in {"select", "update"}
    /\ spc' = [spc EXCEPT ![d] = "crashed"]
    /\ UNCHANGED <<tasks, queueVars, lineVars, adminVars, secret, utcnow, stripe_events, sevent,
                   sinserted, sloc, sres>>

\* expires_at of a task when the deliveries arrive: none, 2023-12-31 or
\* 2024-06-30, each 23:59:59 in Asia/Tokyo (as the admin form stores it)
ExpiryValues == {NoInstant, Instant(1704034799), Instant(1719759599)}

StripeIdle ==
    /\ stripe_events = [e \in LedgerIds |-> NoRow]
    /\ spc = [d \in StripeDeliveries |-> "start"]
    /\ sevent = [d \in StripeDeliveries |-> NoResult]
    /\ sinserted = [d \in StripeDeliveries |-> NoResult]
    /\ sloc = [d \in StripeDeliveries |-> NoResult]
    /\ sres = [d \in StripeDeliveries |-> NoResult]

\* versions registered in terms_versions, and CURRENT_TERMS_VERSION
TermsVersions == {<<"1.0">>, <<"1.1">>}
current_terms_version == <<"1.1">>

\* ids of terms_agreements rows (BIGSERIAL)
AgreementIds == 1..(Cardinality(Users) * Cardinality(TermsVersions))

\* every user has a users row and has agreed to nothing; no chat delivery is
\* in progress; no rich menu is configured
ChatIdle ==
    /\ users = [u \in Users |-> [agreed_terms_version |-> NullText,
                                  agreed_terms_at |-> NULL, last_seen_at |-> 0]]
    /\ terms_agreements = [i \in AgreementIds |-> NoRow]
    /\ lpc = [d \in Deliveries |-> "start"]
    /\ lev = [d \in Deliveries |-> NoResult]
    /\ lsent = [d \in Deliveries |-> <<>>]
    /\ rich_menus = {}

SeenIdle ==
    /\ SEEN_USERS = <<>>
    /\ rpc = [d \in Deliveries |-> "start"]
    /\ rloc = [d \in Deliveries |-> NoResult]

LineIdle == ChatIdle /\ SeenIdle

QueueIdle ==
    /\ queue = [r \in ReqIds |-> NoRow]
    /\ nextId = 1
    /\ now = Start
    /\ epc = [p \in Deliveries |-> "start"]
    /\ erow = [p \in Deliveries |-> NoResult]
    /\ eres = [p \in Deliveries |-> NoResult]
    /\ cpc = "idle" /\ crid = 0
    /\ dpc = "idle" /\ drid = 0
    /\ resp = NoResult
    /\ held = {}

(***************************************************************************)
(* The task handlers of the admin UI (admin.py): admin_create_task,        *)
(* admin_update_task_meta, admin_toggle_task and admin_delete_task.  Each  *)
(* checks its form, awaits one SELECT and then awaits one INSERT, UPDATE   *)
(* or DELETE; requests are served concurrently, so the two statements of   *)
(* one request are two steps and other requests run between them.          *)
(***************************************************************************)
\* number of admin requests to the task handlers that can be in progress at once
NumAdmin == 2
Admins == 1..NumAdmin
\* number of requests to these handlers in one behaviour of the queue
MaxServed == 1

\* TIME_RE = ^\d{2}:\d{2}$ and RUN_TIME_RE = ^\d{2}:\d{2}:\d{2}$
TIME_RE(text) ==
    /\ Len(text) = 5 /\ text[3] = ":"
    /\ \A i \in {1, 2, 4, 5} : IsDigit(text[i])
RUN_TIME_RE(text) ==
    /\ Len(text) = 8 /\ text[3] = ":" /\ text[6] = ":"
    /\ \A i \in {1, 2, 4, 5, 7, 8} : IsDigit(text[i])

PLAN_TAGS == {<<"free">>, <<"paid">>, <<"expired">>}

\* parse_hhmmss_to_timedelta(run_time) raises the 400
run_time_ok(run_time) ==
    RUN_TIME_RE(OrText(strip(OrText(run_time, <<"0", "0", ":", "0", "0", ":", "0", "0">>)),
                       <<"0", "0", ":", "0", "0", ":", "0", "0">>))

\* pc_name = (pc_name or "default").strip() or "default"
PcNameForm(pc_name) == OrText(strip(OrText(pc_name, <<"default">>)), <<"default">>)

\* plan_tag = (plan_tag or "free").strip()
PlanTagForm(plan_tag) == strip(OrText(plan_tag, <<"free">>))

\* (enabled or "true").strip().lower() in {"true", "1", "yes", "on"}
enabled_bool(enabled) ==
    lower(strip(OrText(enabled, <<"t", "r", "u", "e">>)))
        \in {<<"t", "r", "u", "e">>, <<"1">>, <<"y", "e", "s">>, <<"o", "n">>}

\* datetime.fromisoformat(v) as Python 3.11 reads it: a date YYYY-MM-DD,
\* YYYYMMDD or an ISO week date (YYYY-Www, YYYY-Www-D, YYYYWww, YYYYWwwD),
\* alone or followed by one separator character and a time HH[[:]MM[[:]SS]]
\* with an optional fraction and an optional offset (Z, +HH[[:]MM[[:]SS]]).
\* The parser works on the UTF-8 bytes of the text: an ASCII character is one
\* byte, the full-width space and a kana are three, the rerun suffix nine.
Utf8Char(c) ==
    IF c \in {"fw", "kTA", "kSU", "kKU", "hTA", "hSU", "hKU"}
    THEN <<"lead3", "cont", "cont">>
    ELSE IF c = "rerun"
    THEN <<"lead3", "cont", "cont", "lead3", "cont", "cont", "lead3", "cont", "cont">>
    ELSE <<c>>
RECURSIVE utf8(_)
utf8(s) == IF s = <<>> THEN <<>> ELSE Utf8Char(Head(s)) \o utf8(Tail(s))

\* the byte at position p, the terminating NUL past the end
ch(s, p) == IF p \in 1..Len(s) THEN s[p] ELSE "NUL"

\* parse_digits: the value of the n digits from position p, -1 when one of
\* them is not a digit
parse_digits(s, p, n) ==
    IF \E k \in 0..(n - 1) : ~IsDigit(ch(s, p + k)) THEN -1
    ELSE IF n = 0 THEN 0 ELSE int_digits(SubSeq(s, p, p + n - 1))

\* _find_isoformat_datetime_separator: the number of bytes the date takes,
\* -1 for an invalid text
find_isoformat_datetime_separator(s) ==
    LET n == Len(s)
        \* digits in a row from the eighth byte on
        run == CHOOSE k \in 0..n :
                  /\ \A j \in 1..k : IsDigit(ch(s, 7 + j))
                  /\ ~IsDigit(ch(s, 7 + k + 1))
    IN  IF n = 7 THEN 7
        ELSE IF ch(s, 5) = "-"
        THEN IF ch(s, 6) = "W"
             THEN IF n < 8 THEN -1
                  ELSE IF n > 8 /\ ch(s, 9) = "-"
                  THEN IF n = 9 THEN -1
                       ELSE IF n > 10 /\ IsDigit(ch(s, 11)) THEN 8
                       ELSE 10
                  ELSE 8
             ELSE 10
        ELSE IF ch(s, 5) = "W"
        THEN IF 7 + run < 9 THEN 7 + run
             ELSE IF (7 + run) % 2 = 0 THEN 7 ELSE 8
        ELSE 8

\* iso_to_ymd: the date of ISO year, week and weekday, or Raises
iso_to_ymd(year, week, day) ==
    LET jan1 == DaysFromCivil(year, 1, 1)
        \* weekday of January 1st, Monday being 0 (1970-01-01 was a Thursday)
        wd == (jan1 + 3) % 7
        leap == (year % 4 = 0 /\ year % 100 # 0) \/ year % 400 = 0
        week1_monday == jan1 - wd + (IF wd > 3 THEN 7 ELSE 0)
    IN  IF year < 1 \/ year > 9999 THEN Raises
        ELSE IF week <= 0 \/ week > 53 THEN Raises
        ELSE IF week = 53 /\ ~(wd = 3 \/ (wd = 2 /\ leap)) THEN Raises
        ELSE IF day <= 0 \/ day >= 8 THEN Raises
        ELSE CivilFromDays(week1_monday + (week - 1) * 7 + day - 1)

\* parse_isoformat_date on the first n bytes: the fields read (not yet
\* checked to be a date of the calendar), or Raises
parse_isoformat_date(s, n) ==
    LET year == parse_digits(s, 1, 4)
        uses_separator == ch(s, 5) = "-"
        p == IF uses_separator THEN 6 ELSE 5
    IN  IF year < 0 THEN Raises
        ELSE IF ch(s, p) = "W"
        THEN LET iso_week == parse_digits(s, p + 1, 2)
                 q == p + 3
                 r == IF uses_separator THEN q + 1 ELSE q
             IN  IF iso_week < 0 THEN Raises
                 ELSE IF q - 1 < n
                 THEN IF uses_separator /\ ch(s, q) # "-" THEN Raises
                      ELSE IF parse_digits(s, r, 1) < 0 THEN Raises
                      ELSE iso_to_ymd(year, iso_week, parse_digits(s, r, 1))
                 ELSE iso_to_ymd(year, iso_week, 1)
        ELSE LET month == parse_digits(s, p, 2)
                 q == p + 2
                 r == IF uses_separator THEN q + 1 ELSE q
             IN  IF month < 0 THEN Raises
                 ELSE IF uses_separator /\ ch(s, q) # "-" THEN Raises
                 ELSE IF parse_digits(s, r, 2) < 0 THEN Raises
                 ELSE [year |-> year, month |-> month, day |-> parse_digits(s, r, 2)]

\* the fraction after the hours, minutes and seconds of parse_hh_mm_ss_ff, p
\* being where it starts and p_end the position after the part: rv is -3 for a
\* failure, 1 when text is left over, 0 otherwise
parse_ff(s, p, p_end, vals) ==
    LET len_remains == p_end - p
        to_parse == IF len_remains >= 6 THEN 6 ELSE len_remains
        rest == {k \in (p + to_parse)..Len(s) : ~IsDigit(s[k])}
    IN  IF parse_digits(s, p, to_parse) < 0 THEN [rv |-> -3, vals |-> vals]
        ELSE [rv |-> IF rest # {} THEN 1 ELSE 0, vals |-> vals]

\* parse_hh_mm_ss_ff from its i-th component on (hours, minutes, seconds)
RECURSIVE parse_hh_mm_ss_ff(_, _, _, _, _, _)
parse_hh_mm_ss_ff(s, p, p_end, i, has_separator, vals) ==
    LET v == parse_digits(s, p, 2)
        c == ch(s, p + 2)
        sep == IF i = 1 THEN c = ":" ELSE has_separator
        vs == Append(vals, v)
        q == p + 3
    IN  IF v < 0 THEN [rv |-> -3, vals |-> vals]
        ELSE IF q >= p_end THEN [rv |-> IF c # "NUL" THEN 1 ELSE 0, vals |-> vs]
        ELSE IF sep /\ c = ":"
        THEN IF i = 3 THEN parse_ff(s, q, p_end, vs)
             ELSE parse_hh_mm_ss_ff(s, q, p_end, i + 1, sep, vs)
        ELSE IF c \in {".", ","} THEN parse_ff(s, q, p_end, vs)
        ELSE IF ~sep
        THEN IF i = 3 THEN parse_ff(s, q - 1, p_end, vs)
             ELSE parse_hh_mm_ss_ff(s, q - 1, p_end, i + 1, sep, vs)
        ELSE [rv |-> -4, vals |-> vs]

\* the k-th component read, 0 when the text gave none
Component(vals, k) == IF k <= Len(vals) THEN vals[k] ELSE 0

\* parse_isoformat_time from position p, with the checks the constructors of
\* datetime and timezone make: TRUE when the time is accepted
parse_isoformat_time(s, p) ==
    LET p_end == Len(s) + 1
        marks == {k \in p..Len(s) : s[k] \in {"Z", "+", "-"}}
        tzinfo_pos == IF marks = {} THEN p_end
                      ELSE CHOOSE k \in marks : \A j \in marks : k <= j
        time == parse_hh_mm_ss_ff(s, p, tzinfo_pos, 1, TRUE, <<>>)
        tz == parse_hh_mm_ss_ff(s, tzinfo_pos + 1, p_end, 1, TRUE, <<>>)
        in_range == /\ Component(time.vals, 1) <= 23
                    /\ Component(time.vals, 2) <= 59
                    /\ Component(time.vals, 3) <= 59
    IN  IF p > Len(s) \/ time.rv < 0 THEN FALSE
        ELSE IF tzinfo_pos = p_end THEN time.rv = 0 /\ in_range
        ELSE IF s[tzinfo_pos] = "Z" THEN tzinfo_pos = Len(s) /\ in_range
        ELSE /\ tz.rv = 0
             /\ in_range
             \* an offset strictly between -24h and 24h
             /\ Component(tz.vals, 1) * 3600 + Component(tz.vals, 2) * 60
                    + Component(tz.vals, 3) < 86400

\* the number of bytes of the character that begins at a byte
CharWidth(b) == IF b = "lead3" THEN 3 ELSE 1

\* the date of datetime.fromisoformat(v), or Raises
fromisoformat(v) ==
    LET s == utf8(v)
        separator_location == find_isoformat_datetime_separator(s)
        d == parse_isoformat_date(s, separator_location)
    IN  IF Len(s) < 7 \/ separator_location < 0 THEN Raises
        ELSE IF d = Raises THEN Raises
        ELSE IF Len(s) > separator_location
                /\ ~parse_isoformat_time(s, separator_location + 1
                                               + CharWidth(ch(s, separator_location + 1)))
        THEN Raises
        ELSE IF d.year >= 1 /\ d.year <= 9999 /\ d.month \in 1..12
                /\ d.day \in 1..monthrange(d.year, d.month)
        THEN d
        ELSE Raises

\* datetime(d.year, d.month, d.day, 23, 59, 59, tzinfo=JST)
EndOfDay(d) ==
    timestamptz([year |-> d.year, month |-> d.month, day |-> d.day,
                 sod |-> 23 * 3600 + 59 * 60 + 59, fold |-> 0])

\* expires_at of admin_update_task_meta: None for an absent or blank
\* expires_date, the end of that day for a date, Raises (the 400) otherwise
ExpiresDateForm(expires_date) ==
    IF expires_date = None THEN [value |-> NoInstant]
    ELSE IF strip(expires_date) = <<>> THEN [value |-> NoInstant]
    ELSE IF fromisoformat(strip(expires_date)) = Raises THEN Raises
    ELSE [value |-> Instant(EndOfDay(fromisoformat(strip(expires_date))))]

\* expires_at of admin_create_task: `if expires_date:` tests the text before
\* it is stripped
ExpiresDateCreate(expires_date) ==
    IF expires_date = None \/ expires_date = <<>> THEN [value |-> NoInstant]
    ELSE IF fromisoformat(strip(expires_date)) = Raises THEN Raises
    ELSE [value |-> Instant(EndOfDay(fromisoformat(strip(expires_date))))]

\* the checks of admin_update_task_meta that answer 400 before any statement
UpdateFormRejected(form) ==
    \/ strip(OrText(form.schedule_value, <<>>)) # <<>>
       /\ ~TIME_RE(strip(OrText(form.schedule_value, <<>>)))
    \/ ~run_time_ok(form.run_time)
    \/ PlanTagForm(form.plan_tag) \notin PLAN_TAGS
    \/ ExpiresDateForm(form.expires_date) = Raises

\* the checks of admin_create_task that answer 400 before any statement
CreateFormRejected(form) ==
    \/ ~TIME_RE(strip(form.schedule_value))
    \/ ~run_time_ok(form.run_time)
    \/ PlanTagForm(form.plan_tag) \notin PLAN_TAGS
    \/ ExpiresDateCreate(form.expires_date) = Raises

\* a submitted form
Form(name, schedule_value, pc_name, run_time, plan_tag, expires_date, enabled) ==
    [name |-> name, schedule_value |-> schedule_value, pc_name |-> pc_name,
     run_time |-> run_time, plan_tag |-> plan_tag, expires_date |-> expires_date,
     enabled |-> enabled]

AdminIdle ==
    /\ apc = [a \in Admins |-> "idle"]
    /\ aloc = [a \in Admins |-> NoResult]
    /\ nextTask = 1
    /\ served = 0

Answer(a, handler, code) ==
    /\ resp' = Response(handler, code)
    /\ apc' = [apc EXCEPT ![a] = "idle"]
    /\ aloc' = [aloc EXCEPT ![a] = NoResult]

Await(a, position, locals) ==
    /\ apc' = [apc EXCEPT ![a] = position]
    /\ aloc' = [aloc EXCEPT ![a] = locals]
    /\ UNCHANGED resp

\* admin_create_task: the form checks, SELECT 1 FROM users
admin_create_task_select(a, user_id, form) ==
    /\ apc[a] = "idle"
    /\ served' = served + 1
    /\ IF CreateFormRejected(form) THEN Answer(a, "admin_create_task", 400)
       ELSE IF users[user_id] = NoRow THEN Answer(a, "admin_create_task", 404)
       ELSE Await(a, "create_task",
                  [user_id |-> user_id, name |-> strip(form.name),
                   pc_name |-> PcNameForm(form.pc_name),
                   expires_at |-> ExpiresDateCreate(form.expires_date).value])
    /\ UNCHANGED <<tasks, nextTask, queue, nextId, now, enqVars, cancelVars, deleteVars,
                   held, stripeVars, lineVars>>

\* admin_create_task: INSERT INTO tasks (..., enabled, ...) VALUES (..., TRUE, ...)
admin_create_task_insert(a) ==
    /\ apc[a] = "create_task"
    /\ UNCHANGED served
    /\ nextTask <= Len(NewTaskIds)
    /\ tasks' = [tasks EXCEPT ![NewTaskIds[nextTask]] =
                    [user_id |-> aloc[a].user_id, name |-> aloc[a].name,
                     enabled |-> TRUE, pc_name |-> aloc[a].pc_name,
                     created_at |-> now, updated_at |-> now,
                     expires_at |-> aloc[a].expires_at,
                     payment_date |-> NoDate, payment_amount |-> NullText]]
    /\ nextTask' = nextTask + 1
    /\ Answer(a, "admin_create_task", 303)
    /\ UNCHANGED <<queue, nextId, now, enqVars, cancelVars, deleteVars, held,
                   stripeVars, lineVars>>

\* admin_update_task_meta: the form checks, SELECT user_id FROM tasks
admin_update_task_meta_select(a, task_id, form) ==
    /\ apc[a] = "idle"
    /\ served' = served + 1
    /\ IF UpdateFormRejected(form) THEN Answer(a, "admin_update_task_meta", 400)
       ELSE IF tasks[task_id] = NoTask THEN Answer(a, "admin_update_task_meta", 404)
       ELSE Await(a, "update_task_meta",
                  [task_id |-> task_id, pc_name |-> PcNameForm(form.pc_name),
                   expires_at |-> ExpiresDateForm(form.expires_date).value,
                   enabled |-> enabled_bool(form.enabled)])
    /\ UNCHANGED <<tasks, nextTask, queue, nextId, now, enqVars, cancelVars, deleteVars,
                   held, stripeVars, lineVars>>

\* admin_update_task_meta: UPDATE tasks SET ..., updated_at=NOW() WHERE
\* task_id=$11; of the columns written, pc_name, expires_at, enabled and
\* updated_at are kept here
admin_update_task_meta_update(a) ==
    /\ apc[a] = "update_task_meta"
    /\ UNCHANGED served
    /\ LET t == aloc[a].task_id IN
       tasks' = IF tasks[t] = NoTask THEN tasks
                ELSE [tasks EXCEPT ![t].pc_name = aloc[a].pc_name,
                                   ![t].expires_at = aloc[a].expires_at,
                                   ![t].enabled = aloc[a].enabled,
                                   ![t].updated_at = now]
    /\ Answer(a, "admin_update_task_meta", 303)
    /\ UNCHANGED <<nextTask, queue, nextId, now, enqVars, cancelVars, deleteVars, held,
                   stripeVars, lineVars>>

\* admin_toggle_task: SELECT user_id, enabled FROM tasks, new_enabled
admin_toggle_task_select(a, task_id) ==
    /\ apc[a] = "idle"
    /\ served' = served + 1
    /\ IF tasks[task_id] = NoTask THEN Answer(a, "admin_toggle_task", 404)
       ELSE Await(a, "toggle_task",
                  [task_id |-> task_id, new_enabled |-> ~tasks[task_id].enabled])
    /\ UNCHANGED <<tasks, nextTask, queue, nextId, now, enqVars, cancelVars, deleteVars,
                   held, stripeVars, lineVars>>

\* admin_toggle_task: UPDATE tasks SET enabled=$1, updated_at=NOW() WHERE
\* task_id=$2
admin_toggle_task_update(a) ==
    /\ apc[a] = "toggle_task"
    /\ UNCHANGED served
    /\ LET t == aloc[a].task_id IN
       tasks' = IF tasks[t] = NoTask THEN tasks
                ELSE [tasks EXCEPT ![t].enabled = aloc[a].new_enabled,
                                   ![t].updated_at = now]
    /\ Answer(a, "admin_toggle_task", 303)
    /\ UNCHANGED <<nextTask, queue, nextId, now, enqVars, cancelVars, deleteVars, held,
                   stripeVars, lineVars>>

\* the queue's task_id column is declared ON DELETE CASCADE (db.py)
OnDeleteCascade_everyTask(q, task_id) == [r \in ReqIds |-> NoRow]
OnDeleteCascade(q, task_id) ==
    [r \in ReqIds |-> IF q[r] # NoRow /\ q[r].task_id = task_id THEN NoRow ELSE q[r]]

\* admin_delete_task: SELECT user_id FROM tasks
admin_delete_task_select(a, task_id) ==
    /\ apc[a] = "idle"
    /\ served' = served + 1
    /\ IF tasks[task_id] = NoTask THEN Answer(a, "admin_delete_task", 404)
       ELSE Await(a, "delete_task", [task_id |-> task_id])
    /\ UNCHANGED <<tasks, nextTask, queue, nextId, now, enqVars, cancelVars, deleteVars,
                   held, stripeVars, lineVars>>

\* admin_delete_task: DELETE FROM tasks WHERE task_id=$1
admin_delete_task_delete(a) ==
    /\ apc[a] = "delete_task"
    /\ UNCHANGED served
    /\ tasks' = [tasks EXCEPT ![aloc[a].task_id] = NoTask]
    /\ queue' = OnDeleteCascade(queue, aloc[a].task_id)
    /\ Answer(a, "admin_delete_task", 303)
    /\ UNCHANGED <<nextTask, nextId, now, enqVars, cancelVars, deleteVars, held,
                   stripeVars, lineVars>>

(***************************************************************************)
(* Initial state: the tasks exist, each enabled or not; the queue is empty *)
(***************************************************************************)
Init ==
    /\ \E en \in [SeedTaskIds -> BOOLEAN] : tasks = TaskSeed(en)
    /\ QueueIdle
    /\ secret = "whsec"
    /\ utcnow \in UtcNowValues
    /\ StripeIdle
    /\ LineIdle
    /\ AdminIdle

\* the payment webhook starts with the tasks in place, "T1" with or without
\* an expiry, and the secret configured or not
StripeInit ==
    /\ \E ex \in ExpiryValues :
          tasks = [TaskSeed([t \in TaskIds |-> TRUE]) EXCEPT !["T1"].expires_at = ex]
    /\ secret \in {"", "whsec"}
    /\ utcnow \in UtcNowValues
    /\ StripeIdle
    /\ QueueIdle
    /\ LineIdle
    /\ AdminIdle

StripeNext ==
    \/ \E d \in StripeDeliveries : stripe_webhook_start(d)
    \/ \E d \in StripeDeliveries, raw \in PairBodies :
          \E header \in PairHeaders(raw, utcnow) : stripe_webhook_verify(d, header, raw)
    \/ \E d \in StripeDeliveries : stripe_webhook_insert(d)
    \/ \E d \in StripeDeliveries : stripe_webhook_locals(d)
    \/ ClockTick
    \/ \E d \in StripeDeliveries : stripe_webhook_select(d)
    \/ \E d \in StripeDeliveries : stripe_webhook_update(d)
    \/ \E d \in StripeDeliveries : stripe_webhook_crash(d)

\* only deliveries to the payment webhook run
SpecStripe == StripeInit /\ [][StripeNext]_vars

\* one delivery arrives at a server that may have recorded an event before
PriorLedgers ==
    {[e \in LedgerIds |-> NoRow],
     [e \in LedgerIds |->
        IF e = "evt_1"
        THEN [event_id |-> e,
              payload |-> Event(e, "checkout.session.completed",
                                <<"T1", "_", "3", "m">>, JsonInt(1706695200))]
        ELSE NoRow]}

SingleInit ==
    /\ \E ex \in ExpiryValues :
          tasks = [TaskSeed([t \in TaskIds |-> TRUE]) EXCEPT !["T1"].expires_at = ex]
    /\ secret \in {"", "whsec"}
    /\ utcnow \in UtcNowValues
    /\ stripe_events \in PriorLedgers
    /\ spc = [d \in StripeDeliveries |-> "start"]
    /\ sevent = [d \in StripeDeliveries |-> NoResult]
    /\ sinserted = [d \in StripeDeliveries |-> NoResult]
    /\ sloc = [d \in StripeDeliveries |-> NoResult]
    /\ sres = [d \in StripeDeliveries |-> NoResult]
    /\ QueueIdle
    /\ LineIdle
    /\ AdminIdle

SingleNext ==
    \/ stripe_webhook_start(1)
    \/ \E raw \in RawBodies :
          \E header \in Headers(raw, utcnow) : stripe_webhook_verify(1, header, raw)
    \/ stripe_webhook_insert(1)
    \/ stripe_webhook_locals(1)
    \/ ClockTick
    \/ stripe_webhook_select(1)
    \/ stripe_webhook_update(1)
    \/ stripe_webhook_crash(1)

SpecStripeSingle == SingleInit /\ [][SingleNext]_vars

\* the response is one of the handler's success dicts (HTTP 200, ok = true)
Acknowledged(res) == "ok" \in DOMAIN res /\ res.ok

\* delivery d ended without a success response: the worker died, the server
\* answered 500, or the handler answered with an HTTP error
Unacknowledged(d) ==
    \/ spc[d] \in {"crashed", "raised"}
    \/ spc[d] = "done" /\ ~Acknowledged(sres[d])

\* the provider sends delivery d: the first one, or a redelivery after the
\* delivery before it ended without a success response
Sends(d) == IF d = 1 THEN TRUE ELSE Unacknowledged(d - 1)

\* the provider redelivers the event it sent before
Redelivers(d, raw) == IF d = 1 THEN TRUE ELSE raw = sevent[d - 1]

\* the secret is configured and the provider signs what it sends
RetryInit == StripeInit /\ secret = "whsec"

\* the steps of the handler, which the server runs on unless the worker dies
RetryProgress ==
    \/ \E d \in StripeDeliveries : Sends(d) /\ stripe_webhook_start(d)
    \/ \E d \in StripeDeliveries, raw \in Events :
          /\ Redelivers(d, raw)
          /\ stripe_webhook_verify(d, SignedHeader(raw, secret, utcnow), raw)
    \/ \E d \in StripeDeliveries : stripe_webhook_insert(d)
    \/ \E d \in StripeDeliveries : stripe_webhook_locals(d)
    \/ \E d \in StripeDeliveries : stripe_webhook_select(d)
    \/ \E d \in StripeDeliveries : stripe_webhook_update(d)

RetryNext ==
    \/ RetryProgress
    \/ ClockTick
    \/ \E d \in StripeDeliveries : stripe_webhook_crash(d)

\* a step of RetryProgress, told by the positions alone: a delivery that the
\* provider sends, or whose handler is at one of its statements, moves to
\* another position that is not the worker's death
HandlerStep ==
    \E d \in StripeDeliveries :
        /\ \/ spc[d] = "start" /\ Sends(d)
           \/ spc[d] \in {"body", "insert", "locals", "select", "update"}
        /\ \E p \in {"body", "insert", "locals", "select", "update", "done", "raised"} :
              p # spc[d] /\ spc' = [spc EXCEPT ![d] = p]

\* the provider delivers one event, again and again until a delivery is
\* answered with success; the provider sends what it has to send and the
\* server runs a request it took up to its end, unless the worker dies
SpecRetry == RetryInit /\ [][RetryNext]_vars /\ WF_spc(HandlerStep)

(***************************************************************************)
(* Specifications                                                          *)
(***************************************************************************)
\* the forms the admin submits while the queue is at work: a task named "a"
\* is created; a task is disabled or enabled with its machine set to "pcA"; a
\* form with an unknown plan tag
HHMM == <<"0", "9", ":", "3", "0">>
HHMMSS == <<"0", "0", ":", "1", "0", ":", "0", "0">>
TrueText == <<"t", "r", "u", "e">>
FalseText == <<"f", "a", "l", "s", "e">>
QueueCreateForms ==
    {Form(<<"a">>, HHMM, <<>>, HHMMSS, <<"free">>, None, None)}
QueueUpdateForms ==
    {Form(None, HHMM, <<"pcA">>, HHMMSS, <<"paid">>, None, en) : en \in {TrueText, FalseText}}
    \cup {Form(None, HHMM, <<"pcA">>, HHMMSS, <<"gold">>, None, TrueText)}

EnqueueNext ==
    \/ \E p \in Deliveries, u \in Users, n \in TypedNames : enqueue_rerun_find(p, u, n)
    \/ \E p \in Deliveries : enqueue_rerun_insert(p)

Next ==
    \/ \E p \in Deliveries, u \in Users, n \in TypedNames : enqueue_rerun_find(p, u, n)
    \/ \E p \in Deliveries : enqueue_rerun_insert(p)
    \/ \E r \in ReqIds : admin_cancel_rerun_select(r)
    \/ admin_cancel_rerun_update
    \/ \E r \in ReqIds : admin_delete_rerun_select(r)
    \/ admin_delete_rerun_delete
    \/ \E u \in Users, form \in QueueCreateForms :
          served < MaxServed /\ admin_create_task_select(1, u, form)
    \/ admin_create_task_insert(1)
    \/ \E t \in TaskIds, form \in QueueUpdateForms :
          served < MaxServed /\ admin_update_task_meta_select(1, t, form)
    \/ admin_update_task_meta_update(1)
    \/ \E t \in TaskIds : served < MaxServed /\ admin_toggle_task_select(1, t)
    \/ admin_toggle_task_update(1)
    \/ \E t \in TaskIds : served < MaxServed /\ admin_delete_task_select(1, t)
    \/ admin_delete_task_delete(1)
    \/ \E r \in ReqIds : runner_claim(r)
    \/ \E r \in ReqIds, o \in {"done", "failed"} : runner_report(r, o)

Spec == Init /\ [][Next]_vars

\* only the concurrent enqueue_rerun calls run
SpecEnqueue == Init /\ [][EnqueueNext]_vars

(***************************************************************************)
(* Name resolution: two tasks whose names, owners, creation order and      *)
(* enabled flags vary; users type names in chat while the admin edits the  *)
(* tasks                                                                   *)
(***************************************************************************)
ResolveTypedNames ==
    {<<"a">>, <<"a", "sp", "b">>, <<"a", "fw", "fw", "b">>, <<"a", "b">>}

ResolveSeed(owner2, name1, name2, created1, en) ==
    [t \in TaskIds |->
        IF t = "T1"
        THEN [user_id |-> "U1", name |-> name1, enabled |-> en[t],
              pc_name |-> <<"pcA">>, created_at |-> created1,
              updated_at |-> created1,
              expires_at |-> NoInstant, payment_date |-> NoDate, payment_amount |-> NullText]
        ELSE IF t = "T2"
        THEN [user_id |-> owner2, name |-> name2, enabled |-> en[t],
              pc_name |-> <<"pcB">>, created_at |-> 3 - created1,
              updated_at |-> 3 - created1,
              expires_at |-> NoInstant, payment_date |-> NoDate, payment_amount |-> NullText]
        ELSE NoTask]

\* the forms submitted while names are resolved: machine names with and
\* without blanks around them, an expiry date, an impossible date, a run time
\* without seconds, and a new task whose name matches the typed ones
PcNameInputs == {<<>>, <<"sp">>, <<"pcA">>, <<"pcA", "sp">>}
ExpiresDateInputs ==
    {None, <<"sp">>, <<"2", "0", "2", "4", "-", "0", "6", "-", "3", "0">>,
     <<"2", "0", "2", "4", "-", "0", "2", "-", "3", "0">>,
     <<"2", "0", "2", "4", "0", "6", "3", "0", "T", "1", "0", ":", "0", "0">>,
     <<"1", "9", "5", "0", "-", "0", "6", "-", "0", "1">>}
ResolveUpdateForms ==
    {Form(None, HHMM, pc, HHMMSS, <<"free">>, None, TrueText) : pc \in PcNameInputs}
    \cup {Form(None, HHMM, <<"pcA">>, HHMMSS, <<"free">>, ex, en) :
            ex \in ExpiresDateInputs, en \in {<<"O", "n">>, FalseText}}
    \cup {Form(None, sv, <<"pcA">>, rt, <<"free">>, None, TrueText) :
            sv \in {HHMM, <<>>, <<"9", ":", "3", "0">>}, rt \in {HHMMSS, HHMM, <<>>}}
ResolveCreateForms ==
    {Form(name, HHMM, pc, HHMMSS, <<"free">>, ex, None) :
        name \in {<<"fw", "a", "sp">>, <<"a", "sp", "sp", "b">>},
        pc \in {<<>>, <<"pcC", "sp">>}, ex \in {None, <<"sp">>}}

ResolveInit ==
    /\ \E owner2 \in Users, name1 \in {<<"a">>, <<"a", "sp", "b">>},
          name2 \in {<<"a", "fw", "sp", "b">>, <<"a", "b">>},
          created1 \in {1, 2}, en \in [SeedTaskIds -> BOOLEAN] :
          tasks = ResolveSeed(owner2, name1, name2, created1, en)
    /\ QueueIdle
    /\ secret = "whsec"
    /\ utcnow \in UtcNowValues
    /\ StripeIdle
    /\ LineIdle
    /\ AdminIdle

ResolveNext ==
    \/ \E p \in Deliveries, u \in Users, n \in ResolveTypedNames :
          enqueue_rerun_find(p, u, n)
    \/ \E p \in Deliveries : enqueue_rerun_insert(p)
    \/ \E t \in TaskIds, form \in ResolveUpdateForms :
          served < MaxServed /\ admin_update_task_meta_select(1, t, form)
    \/ admin_update_task_meta_update(1)
    \/ \E u \in Users, form \in ResolveCreateForms :
          served < MaxServed /\ admin_create_task_select(1, u, form)
    \/ admin_create_task_insert(1)

SpecResolve == ResolveInit /\ [][ResolveNext]_vars

\* the task handlers alone: NumAdmin requests, served one after the other or
\* at the same time
TasksNext ==
    \/ \E a \in Admins, u \in Users, form \in ResolveCreateForms :
          served < NumAdmin /\ admin_create_task_select(a, u, form)
    \/ \E a \in Admins : admin_create_task_insert(a)
    \/ \E a \in Admins, t \in TaskIds, form \in ResolveUpdateForms :
          served < NumAdmin /\ admin_update_task_meta_select(a, t, form)
    \/ \E a \in Admins : admin_update_task_meta_update(a)
    \/ \E a \in Admins, t \in TaskIds : served < NumAdmin /\ admin_toggle_task_select(a, t)
    \/ \E a \in Admins : admin_toggle_task_update(a)
    \/ \E a \in Admins, t \in TaskIds : served < NumAdmin /\ admin_delete_task_select(a, t)
    \/ \E a \in Admins : admin_delete_task_delete(a)

SpecTasks == Init /\ [][TasksNext]_vars

TypeOK ==
    /\ nextId \in 1..(NumEnq + 1)
    /\ now \in Times
    /\ \A r \in Rows(queue) : queue[r].status \in RERUN_STATUSES

(***************************************************************************)
(* Properties of the rerun admission queue                                 *)
(***************************************************************************)
IsOk(res) == res # NoResult /\ res.ok

\* the task a delivery's lookup resolved, once it has one
Resolved(p) == erow[p] # NoResult

\* C1: in every reachable state each task_id has at most one row of
\* task_rerun_queue whose status is queued or running.
C1_AtMostOneActivePerTask ==
    \A t \in TaskIds : Cardinality(ActiveRowsOfTask(queue, t)) <= 1

\* an enqueue was refused as already_pending and its task has a row that the
\* runner has claimed (running)
C1_Witness ==
    \E p \in Deliveries :
        /\ eres[p] = AlreadyPendingResult
        /\ \E r \in RowsOfTask(queue, erow[p].task_id) : queue[r].status = "running"

\* C2: when only enqueue_rerun calls run, the calls that resolved the same
\* enabled task and have returned contain exactly one ok result, whose
\* request_id is a queued row of that task, and every other one of them
\* returned already_pending.
C2_ExactlyOneAdmitted ==
    \A t \in TaskIds :
        LET D == {p \in Deliveries : /\ epc[p] = "done"
                                     /\ Resolved(p)
                                     /\ erow[p].task_id = t
                                     /\ erow[p].enabled}
            W == {p \in D : IsOk(eres[p])}
        IN  D # {} =>
              /\ Cardinality(W) = 1
              /\ \A p \in W : /\ queue[eres[p].request_id] # NoRow
                              /\ queue[eres[p].request_id].task_id = t
                              /\ queue[eres[p].request_id].status = "queued"
              /\ \A p \in D \ W : eres[p] = AlreadyPendingResult
              /\ Cardinality(RowsOfTask(queue, t)) = 1

\* every delivery called enqueue for the same enabled task and all returned
C2_Witness ==
    \E t \in TaskIds :
        /\ \A p \in Deliveries :
              epc[p] = "done" /\ Resolved(p) /\ erow[p].task_id = t /\ erow[p].enabled
        /\ Cardinality({p \in Deliveries : IsOk(eres[p])}) = 1
        /\ Cardinality({p \in Deliveries : eres[p] = AlreadyPendingResult}) = NumEnq - 1

\* C3: the insert of an enqueue whose task has a queued or running row
\* returns already_pending and leaves every row of the queue as it was.
C3_ActiveMeansAlreadyPending ==
    [][\A p \in Deliveries :
          (enqueue_rerun_insert(p) /\ ActiveRowsOfTask(queue, erow[p].task_id) # {})
          => /\ eres'[p] = [ok |-> FALSE, reason |-> "already_pending"]
             /\ epc'[p] = "done"
             /\ queue' = queue
             /\ nextId' = nextId]_vars

\* an enqueue returned already_pending and the active row it met is still queued
C3_Witness ==
    \E p \in Deliveries :
        /\ epc[p] = "done"
        /\ eres[p] = [ok |-> FALSE, reason |-> "already_pending"]
        /\ \E r \in RowsOfTask(queue, erow[p].task_id) : queue[r].status = "queued"

\* C4: an enqueue whose lookup resolves a task with enabled = false returns
\* disabled at once and the queue is unchanged, whatever rows it holds.
C4_DisabledNeverAdmitted ==
    [][\A p \in Deliveries, u \in Users, n \in TypedNames :
          (/\ enqueue_rerun_find(p, u, n)
           /\ sql_find(tasks, u, n) # {}
           /\ \A t \in sql_find(tasks, u, n) : ~tasks[t].enabled)
          => /\ eres'[p] = [ok |-> FALSE, reason |-> "disabled"]
             /\ epc'[p] = "done"
             /\ queue' = queue
             /\ nextId' = nextId]_vars

\* an enqueue returned disabled while the queue holds rows of that very task
C4_Witness ==
    \E p \in Deliveries :
        /\ epc[p] = "done"
        /\ eres[p] = [ok |-> FALSE, reason |-> "disabled"]
        /\ RowsOfTask(queue, erow[p].task_id) # {}

\* C5: a row's status becomes canceled only from queued, never from running,
\* in every interleaving of admin_cancel_rerun with the runner's claim.
C5_CanceledOnlyFromQueued ==
    [][\A r \in ReqIds :
          (/\ queue[r] # NoRow /\ queue'[r] # NoRow
           /\ queue[r].status # "canceled"
           /\ queue'[r].status = "canceled")
          => queue[r].status = "queued"]_vars

\* the columns of a row that admin_cancel_rerun does not write
SameButStatusAndFinished(a, b) ==
    /\ a.task_id = b.task_id /\ a.user_id = b.user_id /\ a.pc_name = b.pc_name
    /\ a.requested_by = b.requested_by /\ a.requested_at = b.requested_at
    /\ a.locked_at = b.locked_at /\ a.locked_by = b.locked_by
    /\ a.started_at = b.started_at /\ a.exit_code = b.exit_code

\* C6: admin_cancel_rerun without interference: on an unknown request_id it
\* answers 404 and on a running, done, failed or canceled row 400, the queue
\* unchanged in both cases; on a queued row (still queued when the UPDATE
\* runs) the row gets status canceled and finished_at = NOW(), its other
\* columns and all other rows stay as they were.
C6_CancelSequential ==
    [][/\ \A r \in ReqIds :
            admin_cancel_rerun_select(r) =>
              /\ queue' = queue
              /\ queue[r] = NoRow =>
                    resp' = [handler |-> "admin_cancel_rerun", status |-> 404] /\ cpc' = "idle"
              /\ (queue[r] # NoRow /\ queue[r].status \in {"running", "done", "failed", "canceled"}) =>
                    resp' = [handler |-> "admin_cancel_rerun", status |-> 400] /\ cpc' = "idle"
              /\ (queue[r] # NoRow /\ queue[r].status = "queued") =>
                    cpc' = "update" /\ crid' = r
       /\ (admin_cancel_rerun_update /\ queue[crid] # NoRow /\ queue[crid].status = "queued") =>
              /\ queue'[crid] # NoRow
              /\ queue'[crid].status = "canceled"
              /\ queue'[crid].finished_at = now
              /\ queue'[crid].finished_at # NULL
              /\ SameButStatusAndFinished(queue[crid], queue'[crid])
              /\ \A r \in ReqIds \ {crid} : queue'[r] = queue[r]
              /\ resp' = [handler |-> "admin_cancel_rerun", status |-> 303]]_vars

\* a request that was never claimed has been canceled and stamped, and a later
\* cancel of a non-queued row was answered 400
C6_Witness ==
    /\ \E r \in Rows(queue) : /\ queue[r].status = "canceled"
                              /\ queue[r].locked_at = NULL
                              /\ queue[r].finished_at # NULL
    /\ resp = [handler |-> "admin_cancel_rerun", status |-> 400]

\* C7: admin_delete_rerun answers 400 on a queued or running row and leaves
\* the queue unchanged; the row its DELETE removes has status done, failed or
\* canceled, and no other row changes.
C7_DeleteOnlyTerminal ==
    [][/\ \A r \in ReqIds :
            admin_delete_rerun_select(r) =>
              /\ queue' = queue
              /\ (queue[r] # NoRow /\ queue[r].status \in {"queued", "running"}) =>
                    resp' = [handler |-> "admin_delete_rerun", status |-> 400] /\ dpc' = "idle"
              /\ (queue[r] # NoRow /\ queue[r].status \in {"done", "failed", "canceled"}) =>
                    dpc' = "delete" /\ drid' = r
       /\ admin_delete_rerun_delete =>
              /\ queue[drid] # NoRow => queue[drid].status \in {"done", "failed", "canceled"}
              /\ queue'[drid] = NoRow
              /\ \A r \in ReqIds \ {drid} : queue'[r] = queue[r]]_vars

\* a row has been deleted through admin_delete_rerun (its task still exists)
\* while another row, still active, was left in place
C7_Witness ==
    /\ resp = [handler |-> "admin_delete_rerun", status |-> 303]
    /\ \A t \in TaskIds : tasks[t] # NoTask
    /\ \E r \in ReqIds : r < nextId /\ queue[r] = NoRow
    /\ \E r \in Rows(queue) : queue[r].status \in ActiveStatuses

\* C8 as claimed: whichever handler removes a row of task_rerun_queue, the
\* row's status is done, failed or canceled at that moment.
C8_RemovedOnlyWhenTerminal ==
    [][\A r \in ReqIds :
          (queue[r] # NoRow /\ queue'[r] = NoRow)
          => queue[r].status \in TerminalStatuses]_vars

\* C8 amended: a row is removed while queued or running only by the deletion
\* of its own task (ON DELETE CASCADE); every other removal finds the row
\* done, failed or canceled, and admin_delete_task removes no row of a task
\* that remains.
C8_RemovedWhenTerminalOrTaskDeleted ==
    [][\A r \in ReqIds :
          (queue[r] # NoRow /\ queue'[r] = NoRow)
          => \/ /\ queue[r].status \in TerminalStatuses
                /\ tasks'[queue[r].task_id] # NoTask
                /\ tasks' = tasks
             \/ /\ tasks[queue[r].task_id] # NoTask
                /\ tasks'[queue[r].task_id] = NoTask]_vars

\* a request admitted and claimed by the runner has lost its row because its
\* task was deleted
C8_Witness ==
    \E p \in Deliveries :
        /\ IsOk(eres[p])
        /\ eres[p].request_id \in held
        /\ queue[eres[p].request_id] = NoRow
        /\ tasks[eres[p].task_id] = NoTask
        /\ resp = [handler |-> "admin_delete_task", status |-> 303]
        /\ cpc = "idle" /\ dpc = "idle"

\* C9: once a row's status is done, failed or canceled, no step changes that
\* row's status to another value.
C9_TerminalAbsorbing ==
    [][\A r \in ReqIds :
          (/\ queue[r] # NoRow /\ queue'[r] # NoRow
           /\ queue[r].status \in TerminalStatuses)
          => queue'[r].status = queue[r].status]_vars

\* C10: the insert of an enqueue whose task exists and has only done, failed
\* or canceled rows (or none) returns ok with a fresh request_id, adds one
\* queued row for that task and leaves every existing row as it was.
C10_TerminalRowsDoNotBlock ==
    [][\A p \in Deliveries :
          (/\ enqueue_rerun_insert(p)
           /\ tasks[erow[p].task_id] # NoTask
           /\ \A r \in RowsOfTask(queue, erow[p].task_id) :
                 queue[r].status \in TerminalStatuses)
          => /\ IsOk(eres'[p])
             /\ eres'[p].task_id = erow[p].task_id
             /\ queue[eres'[p].request_id] = NoRow
             /\ queue'[eres'[p].request_id] # NoRow
             /\ queue'[eres'[p].request_id].task_id = erow[p].task_id
             /\ queue'[eres'[p].request_id].status = "queued"
             /\ \A r \in ReqIds \ {eres'[p].request_id} : queue'[r] = queue[r]]_vars

\* an enqueue was admitted, its row is still queued, and the same task has an
\* older row that is done, failed or canceled
C10_Witness ==
    \E p \in Deliveries :
        /\ IsOk(eres[p])
        /\ queue[eres[p].request_id] # NoRow
        /\ queue[eres[p].request_id].status = "queued"
        /\ \E r \in RowsOfTask(queue, eres[p].task_id) :
              /\ r < eres[p].request_id
              /\ queue[r].status \in TerminalStatuses

(***************************************************************************)
(* Properties of the payment webhook                                       *)
(***************************************************************************)
\* deliveries whose request was verified and parsed, by event and by event id
DeliveriesOf(e) == {d \in StripeDeliveries : sevent[d] = e}
DeliveriesOfId(id) ==
    {d \in StripeDeliveries : sevent[d] # NoResult /\ sevent[d].id = id}

\* delivery d executes its ledger INSERT in this step
Inserts(d) == spc[d] = "insert" /\ spc'[d] # "insert"

\* delivery d, its ledger INSERT behind it, runs on in this step
Resumes(d) == spc[d] = "locals" /\ spc'[d] \notin {"locals", "crashed"}

\* delivery d executes its UPDATE of tasks in this step
Updates(d) == spc[d] = "update" /\ spc'[d] = "done"

\* the delivery executed the UPDATE of tasks and returned
Applied(d) ==
    spc[d] = "done" /\ sloc[d] # NoResult /\ sres[d] = AppliedResult(sloc[d])

\* a checkout-completed event whose client_reference_id names an existing task
Entitling(e) ==
    /\ e.type = "checkout.session.completed"
    /\ LET x == extract_task_id_and_plan(e.data.object.client_reference_id) IN
       /\ Len(x.task_id) = 1
       /\ x.task_id[1] \in TaskIds
       /\ tasks[x.task_id[1]] # NoTask

PlanOf(e) == extract_task_id_and_plan(e.data.object.client_reference_id).plan
TaskOf(e) == extract_task_id_and_plan(e.data.object.client_reference_id).task_id[1]

\* C11: when every delivery carries the same checkout-completed event with a
\* non-empty event_id, at most one of them updates the Task and, once all
\* have returned, exactly one has and every other was answered ok with
\* duplicate = true; a delivery whose ledger INSERT finds the event_id
\* recorded gets nothing back from it, computes nothing, changes no Task
\* row, and returns ok with duplicate = true as soon as it runs on.
C11_SameEventOneUpdate ==
    /\ [](\A e \in Events :
            (e.id # "" /\ Entitling(e)) =>
              /\ Cardinality({d \in DeliveriesOf(e) : Applied(d)}) <= 1
              /\ (\A d \in StripeDeliveries : sevent[d] = e /\ spc[d] = "done") =>
                    /\ Cardinality({d \in StripeDeliveries : Applied(d)}) = 1
                    /\ \A d \in StripeDeliveries :
                          ~Applied(d) => sres[d] = [ok |-> TRUE, duplicate |-> TRUE])
    /\ [](\A d \in StripeDeliveries :
            sinserted[d] = NoRow => spc[d] \in {"locals", "done"} /\ sloc[d] = NoResult)
    /\ [][\A d \in StripeDeliveries :
            /\ (Inserts(d) /\ stripe_events[sevent[d].id] # NoRow)
               => /\ sinserted'[d] = NoRow
                  /\ stripe_events' = stripe_events
                  /\ tasks' = tasks
            /\ (spc[d] = "locals" /\ sinserted[d] = NoRow /\ spc'[d] # "locals")
               => /\ sres'[d] = [ok |-> TRUE, duplicate |-> TRUE]
                  /\ spc'[d] = "done"
                  /\ sloc'[d] = NoResult
                  /\ tasks' = tasks]_vars

\* the same 6-month event, paid 2024-05-01, was delivered twice: one
\* delivery wrote its payment date and expiry to the task, the other found
\* the event_id in the ledger and was answered duplicate
C11_Witness ==
    \E e \in Events :
        /\ e.id # "" /\ Entitling(e) /\ PlanOf(e) = <<"6", "m">>
        /\ \A d \in StripeDeliveries : sevent[d] = e /\ spc[d] = "done"
        /\ \E d \in StripeDeliveries :
              /\ sres[d] = [ok |-> TRUE, duplicate |-> TRUE]
              /\ sloc[d] = NoResult
        /\ \E d \in StripeDeliveries :
              /\ Applied(d)
              /\ tasks[TaskOf(e)].payment_date = [year |-> 2024, month |-> 5, day |-> 1]
              /\ tasks[TaskOf(e)].expires_at = sloc[d].new_expires_at

\* C12: a delivery's UPDATE changes a Task row only if that delivery's own
\* INSERT into stripe_events recorded its event as new, whatever the event's
\* id field holds; so each event, with or without an id, is applied at most
\* once.
C12_AppliedOnlyIfRecordedNew ==
    /\ [][\A d \in StripeDeliveries :
            (Updates(d) /\ tasks[sloc[d].task_id_str[1]] # NoTask)
            => /\ sevent[d].id \in LedgerIds
               /\ stripe_events[sevent[d].id] # NoRow]_vars
    /\ [](\A e \in Events :
            Cardinality({d \in DeliveriesOf(e) : Applied(d)}) <= 1)

\* the provider holds a success response for its event
ProviderAcknowledged ==
    \E d \in StripeDeliveries : spc[d] = "done" /\ Acknowledged(sres[d])

\* every delivery the provider made ended without a success response: it is
\* still redelivering
StillRedelivering == \A d \in StripeDeliveries : Unacknowledged(d)

\* the provider's event is a verified checkout-completed event for an
\* existing task: the first delivery carries it, the redeliveries repeat it
ProviderEvent == sevent[1]
Entitled == sevent[1] # NoResult /\ Entitling(sevent[1])

\* deliveries that have run the Task update for the provider's event
AppliedDeliveries == {d \in DeliveriesOf(ProviderEvent) : Applied(d)}

\* a delivery of the provider's event died after its ledger INSERT and
\* before its UPDATE returned; an event without an id has no ledger INSERT
CrashedAfterInsert ==
    ProviderEvent.id # "" /\ \E d \in DeliveriesOf(ProviderEvent) : spc[d] = "crashed"

C14_CrashThenDuplicate ==
    \A id \in LedgerIds :
        (\E c \in DeliveriesOfId(id) : spc[c] = "crashed")
        => /\ stripe_events[id] # NoRow
           /\ \A d \in DeliveriesOfId(id) :
                 spc[d] \notin {"crashed", "insert"} =>
                   /\ sinserted[d] = NoRow
                   /\ spc[d] \in {"locals", "done"}
                   /\ spc[d] = "done" => sres[d] = [ok |-> TRUE, duplicate |-> TRUE]
                   /\ sloc[d] = NoResult
           /\ {d \in DeliveriesOfId(id) : Applied(d)} = {}
           /\ Cardinality({d \in DeliveriesOfId(id) : spc[d] = "crashed"}) = 1

\* a delivery of a 6-month event paid 2024-05-01 crashed holding the expiry
\* it computed, 2024-11-01 09:00 in Asia/Tokyo, the redelivery returned
\* duplicate, and the task has no expiry and no payment
C14_Witness ==
    \E c, d \in StripeDeliveries :
        /\ spc[c] = "crashed"
        /\ sloc[c] # NoResult
        /\ sloc[c].new_expires_at = Instant(1730419200)
        /\ PlanOf(sevent[c]) = <<"6", "m">>
        /\ sevent[d] = sevent[c]
        /\ spc[d] = "done" /\ sres[d] = [ok |-> TRUE, duplicate |-> TRUE]
        /\ tasks["T1"].expires_at = NoInstant
        /\ tasks["T1"].payment_date = NoDate

\* C15: a stripe_events row, once inserted, is never changed or removed, its
\* event_id is its key, and a delivery of the same event_id with another
\* payload leaves the stored payload as first recorded.
C15_LedgerOnlyGrows ==
    /\ [](\A id \in LedgerIds :
            stripe_events[id] # NoRow => stripe_events[id].event_id = id)
    /\ [][\A id \in LedgerIds :
            stripe_events[id] # NoRow => stripe_events'[id] = stripe_events[id]]_vars

\* an event_id is recorded with one payload and a delivery of the same
\* event_id with another payload was answered duplicate
C15_Witness ==
    \E d \in StripeDeliveries :
        /\ sevent[d] # NoResult /\ sevent[d].id # ""
        /\ sres[d] = [ok |-> TRUE, duplicate |-> TRUE]
        /\ stripe_events[sevent[d].id] # NoRow
        /\ stripe_events[sevent[d].id].payload # sevent[d]

\* the task a delivery at its SELECT or UPDATE addresses
TaskAt(d) == sloc[d].task_id_str[1]

\* the SELECT of delivery d found its task and went on to the UPDATE
Loaded(d) == stripe_webhook_select(d) /\ spc'[d] = "update"

\* months granted for the plan codes as the claims name them
ClaimedMonths(plan) ==
    CASE plan = <<"3", "m">> -> 3
      [] plan = <<"6", "m">> -> 6
      [] plan = <<"1", "2", "m">> -> 12

\* C16: a checkout-completed event for an existing task with plan 3m, 6m or
\* 12m sets the task's expires_at to the base instant plus 3, 6 or 12
\* calendar months.
C16_ClaimedPlansExtend ==
    [][\A d \in StripeDeliveries :
          /\ (Loaded(d) /\ sloc[d].plan \in {<<"3", "m">>, <<"6", "m">>, <<"1", "2", "m">>})
              => sloc'[d].new_expires_at =
                    Instant(timestamptz(add_months(
                        astimezone(BaseInstant(sloc[d].created_ts, tasks[TaskAt(d)].expires_at)),
                        ClaimedMonths(sloc[d].plan))))
          /\ (Updates(d)
               /\ sloc[d].plan \in {<<"3", "m">>, <<"6", "m">>, <<"1", "2", "m">>})
              => tasks'[TaskAt(d)].expires_at = sloc[d].new_expires_at]_vars

\* C17: the UPDATE of a checkout-completed event whose plan is 1m, absent or
\* any code other than 3m, 6m, 12m leaves the task's expires_at as it was.
C17_OtherPlansKeepExpiry ==
    [][\A d \in StripeDeliveries :
          (Updates(d)
           /\ sloc[d].plan \notin {<<"3", "m">>, <<"6", "m">>, <<"1", "2", "m">>})
          => tasks'[TaskAt(d)].expires_at = tasks[TaskAt(d)].expires_at]_vars

\* the base instant in the words of the claim
ClaimedBase(currentExpiry, paidAt) ==
    IF currentExpiry # NoInstant /\ currentExpiry.epoch > paidAt
    THEN currentExpiry.epoch ELSE paidAt

\* C18: the expiry a delivery computes for a plan the handler extends is the
\* month addition applied to currentExpiry when that is present and later
\* than paidAt, and to paidAt otherwise; currentExpiry 2024-06-30, plan 6m,
\* paidAt 2024-05-01 gives 2024-12-30.
C18_BaseInstant ==
    [][\A d \in StripeDeliveries :
          (Loaded(d) /\ PlanRecognized(sloc[d].plan)) =>
            LET cur == tasks[TaskAt(d)].expires_at
                paid == sloc[d].created_ts
                new == sloc'[d].new_expires_at
            IN  /\ new = Instant(timestamptz(add_months(astimezone(ClaimedBase(cur, paid)),
                                                        PlanMonths(sloc[d].plan))))
                /\ (cur = NoInstant \/ cur.epoch <= paid) =>
                      new = Instant(timestamptz(add_months(astimezone(paid),
                                                           PlanMonths(sloc[d].plan))))
                /\ (cur = Instant(1719759599) /\ paid = 1714521600
                      /\ sloc[d].plan = <<"6", "m">>)
                      => date(astimezone(new.epoch)) = [year |-> 2024, month |-> 12, day |-> 30]]_vars

\* a 6-month event paid 2024-05-01 was applied to a task that expired on
\* 2024-06-30: it now expires on 2024-12-30, 23:59:59 in Asia/Tokyo
C18_Witness ==
    \E d \in StripeDeliveries :
        /\ Applied(d)
        /\ sloc[d].plan = <<"6", "m">>
        /\ sloc[d].created_ts = 1714521600
        /\ sloc[d].new_expires_at = tasks["T1"].expires_at
        /\ tasks["T1"].expires_at = Instant(1735570799)
        /\ astimezone(1735570799) =
              [year |-> 2024, month |-> 12, day |-> 30, sod |-> 86399, fold |-> 0]

\* C19: no step lowers a task's expires_at, in any interleaving of payment
\* deliveries.
C19_ExpiryNeverDecreases ==
    [][\A t \in TaskIds :
          (tasks[t] # NoTask /\ tasks'[t] # NoTask /\ tasks[t].expires_at # NoInstant)
          => /\ tasks'[t].expires_at # NoInstant
             /\ tasks'[t].expires_at.epoch >= tasks[t].expires_at.epoch]_vars

\* number of days of a month, from the distance between two first days
LastDayOfMonth(year, month) ==
    (IF month = 12 THEN DaysFromCivil(year + 1, 1, 1)
                   ELSE DaysFromCivil(year, month + 1, 1))
    - DaysFromCivil(year, month, 1)

\* C20: the expiry computed from base date (year, month, day) and m months
\* has month ((month-1+m) mod 12)+1, year advanced by floor((month-1+m)/12),
\* day min(day, last day of that month), so it never runs into the
\* following month; no prior expiry, plan 3m, paid
\* 2024-01-31T10:00:00Z gives 2024-04-30 in Asia/Tokyo.
C20_AddMonthsClamps ==
    [][\A d \in StripeDeliveries :
          (Loaded(d) /\ PlanRecognized(sloc[d].plan)) =>
            LET cur == tasks[TaskAt(d)].expires_at
                b == astimezone(BaseInstant(sloc[d].created_ts, cur))
                m == PlanMonths(sloc[d].plan)
                k == b.month - 1 + m
                r == astimezone(sloc'[d].new_expires_at.epoch)
                last == LastDayOfMonth(r.year, r.month)
            IN  /\ r.month = (k % 12) + 1
                /\ r.year = b.year + (k \div 12)
                /\ r.day = IF b.day < last THEN b.day ELSE last
                /\ (cur = NoInstant /\ m = 3 /\ sloc[d].created_ts = 1706695200)
                      => date(r) = [year |-> 2024, month |-> 4, day |-> 30]]_vars

\* a 3-month event paid 2024-01-31T10:00:00Z was applied to a task without
\* expiry: it expires on 2024-04-30, 19:00 in Asia/Tokyo
C20_Witness ==
    \E d \in StripeDeliveries :
        /\ Applied(d)
        /\ sloc[d].plan = <<"3", "m">>
        /\ sloc[d].created_ts = 1706695200
        /\ sloc[d].payment_date = [year |-> 2024, month |-> 1, day |-> 31]
        /\ sloc[d].new_expires_at = tasks["T1"].expires_at
        /\ tasks["T1"].expires_at = Instant(1714471200)
        /\ astimezone(1714471200) =
              [year |-> 2024, month |-> 4, day |-> 30, sod |-> 68400, fold |-> 0]

\* what a Stripe-Signature header carries, read off the header itself
HasT(header) == \E i \in 1..Len(header) : header[i].k = "t"
HasV1(header) == \E i \in 1..Len(header) : header[i].k = "v1"
SigT(header) == header[CHOOSE i \in 1..Len(header) : header[i].k = "t"].v
SigV1(header) == header[CHOOSE i \in 1..Len(header) : header[i].k = "v1"].v
OutOfTolerance(header) == SigT(header) - utcnow > 300 \/ utcnow - SigT(header) > 300
DigestValid(header, raw) == SigV1(header) = <<secret, SigT(header), raw>>

\* delivery d was answered with the HTTP error and nothing was stored
RejectedWith(d, status_code, details) ==
    /\ spc'[d] = "done"
    /\ sres'[d] \in {[status_code |-> status_code, detail |-> m] : m \in details}
    /\ stripe_events' = stripe_events
    /\ tasks' = tasks
    /\ sevent' = sevent /\ sloc' = sloc

\* C21: with the secret configured, a signed delivery whose timestamp t is
\* more than 300 seconds from the server time is rejected although its
\* digest is valid for t; one with |now - t| <= 300 and a valid digest passes
\* verification; one whose digest does not match is rejected for every t.
C21_TimestampTolerance ==
    [][\A d \in StripeDeliveries, raw \in RawBodies :
          \A header \in Headers(raw, utcnow) :
            (/\ stripe_webhook_verify(d, header, raw)
             /\ secret # "" /\ HasT(header) /\ HasV1(header))
            => /\ OutOfTolerance(header) =>
                    RejectedWith(d, 400, {"Invalid signature: timestamp outside tolerance"})
               /\ ~DigestValid(header, raw) =>
                    RejectedWith(d, 400, {"Invalid signature: timestamp outside tolerance",
                                          "Invalid signature: signature mismatch"})
               /\ (~OutOfTolerance(header) /\ DigestValid(header, raw)) =>
                    IF raw = NotJson
                    THEN RejectedWith(d, 400, {"Invalid JSON"})
                    ELSE sevent'[d] = raw /\ spc'[d] \in {"done", "insert", "select"}]_vars

\* with the secret configured a delivery was rejected for its timestamp
C21_Witness ==
    \E d \in StripeDeliveries :
        /\ secret = "whsec"
        /\ spc[d] = "done"
        /\ sres[d] = [status_code |-> 400,
                      detail |-> "Invalid signature: timestamp outside tolerance"]

\* C22: with the secret configured, a delivery with no signature header, a
\* header lacking t or v1, a timestamp out of tolerance, a digest mismatch or
\* a body that is not JSON is answered with an HTTP error and leaves the
\* ledger and every Task row as they were.
C22_RejectedLeavesNoTrace ==
    [][\A d \in StripeDeliveries, raw \in RawBodies :
          \A header \in Headers(raw, utcnow) :
            (/\ stripe_webhook_verify(d, header, raw)
             /\ secret # ""
             /\ \/ header = <<>>
                \/ ~(HasT(header) /\ HasV1(header))
                \/ OutOfTolerance(header)
                \/ ~DigestValid(header, raw)
                \/ raw = NotJson)
            => RejectedWith(d, 400,
                  {"Missing Stripe-Signature header",
                   "Invalid signature: invalid stripe signature header",
                   "Invalid signature: timestamp outside tolerance",
                   "Invalid signature: signature mismatch",
                   "Invalid JSON"})]_vars

\* a delivery was rejected for its digest; the ledger holds the one event
\* recorded earlier and the task has no payment
C22_Witness ==
    \E d \in StripeDeliveries :
        /\ spc[d] = "done"
        /\ sres[d] = [status_code |-> 400, detail |-> "Invalid signature: signature mismatch"]
        /\ stripe_events["evt_1"] # NoRow
        /\ stripe_events["evt_2"] = NoRow
        /\ tasks["T1"].payment_date = NoDate

\* C23: without a configured secret every delivery is answered 500, whatever
\* its header and body, and the ledger and the tasks stay as they were; with
\* a secret, a delivery with a bad signature is answered 400.
C23_SecretMissingIs500 ==
    /\ [](secret = "" => \A d \in StripeDeliveries : spc[d] \in {"start", "done"})
    /\ [][\A d \in StripeDeliveries :
            /\ (stripe_webhook_start(d) /\ secret = "") =>
                  RejectedWith(d, 500, {"STRIPE_WEBHOOK_SECRET is not set"})
            /\ \A raw \in RawBodies : \A header \in Headers(raw, utcnow) :
                  (/\ stripe_webhook_verify(d, header, raw)
                   /\ HasT(header) /\ HasV1(header) /\ ~DigestValid(header, raw)) =>
                    /\ secret # ""
                    /\ sres'[d].status_code = 400
                    /\ sres'[d].status_code # 500]_vars

\* no secret is configured and a delivery has been answered 500; the ledger
\* holds the one event recorded earlier
C23_Witness ==
    \E d \in StripeDeliveries :
        /\ secret = ""
        /\ spc[d] = "done"
        /\ sres[d] = [status_code |-> 500, detail |-> "STRIPE_WEBHOOK_SECRET is not set"]
        /\ stripe_events["evt_1"] # NoRow
        /\ tasks["T1"].payment_date = NoDate

\* delivery d of a verified event returns in this step
Returns(d) == spc[d] # "done" /\ spc'[d] = "done" /\ sevent'[d] # NoResult

\* C24: a delivery of a verified event whose type is not
\* checkout.session.completed never goes on to the statements on tasks; when
\* it returns it is acknowledged with success, the ledger holds a row for the
\* event, and no Task row has changed in that step.
C24_NonCheckoutRecorded ==
    /\ [](\A d \in StripeDeliveries :
            (sevent[d] # NoResult /\ sevent[d].type # "checkout.session.completed")
            => spc[d] \in {"insert", "locals", "done"} /\ sloc[d] = NoResult)
    /\ [][\A d \in StripeDeliveries :
            (Returns(d) /\ sevent'[d].type # "checkout.session.completed") =>
              /\ Acknowledged(sres'[d])
              /\ \E id \in LedgerIds :
                    id = sevent'[d].id /\ stripe_events'[id] # NoRow
              /\ tasks' = tasks]_vars

\* a checkout-completed event whose client_reference_id is absent or whose
\* task_id segment names no existing task
Unresolvable(e) ==
    /\ e.type = "checkout.session.completed"
    /\ LET x == extract_task_id_and_plan(strip(e.data.object.client_reference_id)) IN
       \/ x.task_id = <<>>
       \/ Len(x.task_id) # 1
       \/ x.task_id[1] \notin TaskIds
       \/ tasks[x.task_id[1]] = NoTask

\* delivery d of a verified event executes a step of the handler: the one
\* that verifies it, the ledger INSERT, the one after the INSERT, the SELECT
\* or the UPDATE
Handles(d) ==
    /\ spc[d] \in {"body", "insert", "locals", "select", "update"}
    /\ spc'[d] \notin {spc[d], "crashed"}
    /\ sevent'[d] # NoResult

\* C25: a delivery of a verified checkout-completed event without a
\* client_reference_id, or whose task_id segment resolves to no existing
\* task, changes no Task row, never reaches the UPDATE, never ends in an
\* error, and returns a success dict carrying a warning (or the duplicate
\* acknowledgment when the event was recorded before).
C25_UnresolvedIsWarning ==
    [][\A d \in StripeDeliveries :
          (Handles(d) /\ Unresolvable(sevent'[d])) =>
            /\ tasks' = tasks
            /\ spc'[d] \in {"insert", "locals", "select", "done"}
            /\ spc'[d] = "done" =>
                  /\ Acknowledged(sres'[d])
                  /\ "warning" \in DOMAIN sres'[d] \/ sres'[d] = DuplicateResult]_vars

\* every delivery carries event e and has been answered by the handler
AllAnswered(e) ==
    \A d \in StripeDeliveries : sevent[d] = e /\ spc[d] \in {"done", "raised"}

\* C26: when the provider has delivered one verified event again and again
\* and every delivery has been answered, at least one answer is an HTTP
\* success; and a delivery whose ledger INSERT finds the event_id recorded
\* is answered with success when it runs on.
C26_RetriedIsAcknowledged ==
    /\ [](\A e \in Events :
            AllAnswered(e) => \E d \in StripeDeliveries : Acknowledged(sres[d]))
    /\ [][\A d \in StripeDeliveries :
            /\ (/\ Inserts(d)
                /\ sevent[d].id \in LedgerIds
                /\ stripe_events[sevent[d].id] # NoRow) => sinserted'[d] = NoRow
            /\ (Resumes(d) /\ sinserted[d] = NoRow) =>
                  (spc'[d] = "done" /\ Acknowledged(sres'[d]))]_vars

\* the reasons of enqueue_rerun's failure dicts
TaggedReasons == {"not_found", "disabled", "already_pending"}

\* C27: in every interleaving with the admin handlers a call of
\* enqueue_rerun never ends in an exception, and once it has returned its
\* result is ok or carries one of the reasons not_found, disabled,
\* already_pending.
C27_EnqueueNeverRaises ==
    \A p \in Deliveries :
        /\ epc[p] # "raised"
        /\ epc[p] = "done" =>
              /\ eres[p] # NoResult
              /\ eres[p].ok \/ eres[p].reason \in TaggedReasons

(***************************************************************************)
(* Properties of the name lookup of enqueue_rerun                          *)
(***************************************************************************)
\* a name as the lookup is described: full-width spaces read as spaces, and
\* of every run of whitespace only its first character kept, as one space
IsWhitespace(c) == c \in {"sp", "fw", "tab", "lf"}
KeptPositions(s) ==
    {i \in 1..Len(s) : ~(IsWhitespace(s[i]) /\ i > 1 /\ IsWhitespace(s[i - 1]))}
Collapsed(s) ==
    LET k == KeptPositions(s)
        at(j) == CHOOSE i \in k : Cardinality({x \in k : x < i}) = j - 1
    IN  [j \in 1..Cardinality(k) |->
            IF IsWhitespace(s[at(j)]) THEN "sp" ELSE s[at(j)]]

\* the tasks of owner user_id whose name equals the typed name in that sense
OwnMatches(user_id, task_name) ==
    {t \in TaskIds : /\ tasks[t] # NoTask
                     /\ tasks[t].user_id = user_id
                     /\ Collapsed(tasks[t].name) = Collapsed(task_name)}

\* delivery p executes the lookup in this step
LooksUp(p) == epc[p] = "start" /\ epc'[p] # "start"

\* C28: the lookup of enqueue_rerun resolves the typed name to a task of the
\* requesting owner whose name equals it after full-width spaces are read as
\* spaces and whitespace runs collapsed; when the owner has no such task,
\* also when another owner has one, the call returns not_found and the
\* queue stays as it was.
C28_ResolvesWithinOwner ==
    [][\A p \in Deliveries : LooksUp(p) =>
          \A u \in Users, n \in ResolveTypedNames :
            enqueue_rerun_find(p, u, n) =>
              /\ OwnMatches(u, n) = {} =>
                    /\ epc'[p] = "done"
                    /\ eres'[p] = NotFoundResult
                    /\ erow'[p] = NoResult
                    /\ queue' = queue
              /\ OwnMatches(u, n) # {} =>
                    /\ erow'[p] # NoResult
                    /\ erow'[p].task_id \in OwnMatches(u, n)
                    /\ eres'[p] # NotFoundResult]_vars

\* "T2", stored with a full-width space and owned by "U2", was resolved and
\* admitted for one call while another call returned not_found
C28_Witness ==
    \E p, q \in Deliveries :
        /\ tasks["T2"].user_id = "U2"
        /\ tasks["T2"].name = <<"a", "fw", "sp", "b">>
        /\ tasks["T1"].name = <<"a">>
        /\ epc[p] = "done" /\ eres[p] = NotFoundResult
        /\ epc[q] = "done" /\ IsOk(eres[q]) /\ eres[q].task_id = "T2"

\* the most recently created of the tasks in m
Newest(m) == CHOOSE t \in m : \A x \in m : tasks[x].created_at <= tasks[t].created_at

\* the rows the step adds to task_rerun_queue
AddedRows == Rows(queue') \ Rows(queue)

\* C29: when several tasks of the owner normalize to the typed name the
\* lookup selects the one created last; its enabled flag alone decides
\* between disabled and admission, whatever the older matches are, and the
\* INSERT that follows concerns that task only.
C29_NewestMatchDecides ==
    /\ [][\A p \in Deliveries : LooksUp(p) =>
            \A u \in Users, n \in ResolveTypedNames :
              (enqueue_rerun_find(p, u, n) /\ OwnMatches(u, n) # {}) =>
                LET newest == Newest(OwnMatches(u, n)) IN
                /\ erow'[p].task_id = newest
                /\ queue' = queue
                /\ IF tasks[newest].enabled
                   THEN epc'[p] = "insert" /\ eres'[p] = NoResult
                   ELSE epc'[p] = "done" /\ eres'[p] = DisabledResult]_vars
    /\ [][\A p \in Deliveries :
            (epc[p] = "insert" /\ epc'[p] = "done") =>
              /\ \A r \in AddedRows : queue'[r].task_id = erow[p].task_id
              /\ IsOk(eres'[p]) => eres'[p].task_id = erow[p].task_id
              /\ eres'[p] = AlreadyPendingResult =>
                    ActiveRowsOfTask(queue, erow[p].task_id) # {}]_vars

\* both tasks belong to "U1" and collapse to the same name; the newer one is
\* disabled, the older one enabled, and a call resolved the newer one and
\* returned disabled
C29_Witness ==
    \E p \in Deliveries : \E t, o \in TaskIds :
        /\ t # o
        /\ tasks[t] # NoTask /\ tasks[o] # NoTask
        /\ tasks[t].user_id = "U1" /\ tasks[o].user_id = "U1"
        /\ Collapsed(tasks[t].name) = Collapsed(tasks[o].name)
        /\ tasks[o].created_at < tasks[t].created_at
        /\ ~tasks[t].enabled /\ tasks[o].enabled
        /\ epc[p] = "done" /\ eres[p] = DisabledResult
        /\ erow[p].task_id = t
        /\ queue = [r \in ReqIds |-> NoRow]

\* C30: an enqueue_rerun that returns ok has added exactly one row; the row
\* is queued, its pc_name is the pc_name the lookup of that call read from
\* the task, and the result carries the row's request_id with that task_id
\* and pc_name; no later step, an edit of the task's pc_name included,
\* changes the pc_name of a row.
C30_PcNameSnapshot ==
    /\ [][\A p \in Deliveries : LooksUp(p) =>
            (erow'[p] # NoResult =>
               erow'[p].pc_name = tasks[erow'[p].task_id].pc_name)]_vars
    /\ [][\A p \in Deliveries :
            (epc[p] = "insert" /\ IsOk(eres'[p])) =>
              /\ Cardinality(AddedRows) = 1
              /\ \A r \in Rows(queue) : queue'[r] = queue[r]
              /\ \A r \in AddedRows :
                    /\ queue'[r].status = "queued"
                    /\ queue'[r].task_id = erow[p].task_id
                    /\ queue'[r].pc_name = erow[p].pc_name
                    /\ eres'[p] = [ok |-> TRUE, request_id |-> r,
                                   task_id |-> erow[p].task_id,
                                   pc_name |-> erow[p].pc_name]]_vars
    /\ [][\A r \in Rows(queue) :
            queue'[r] # NoRow => queue'[r].pc_name = queue[r].pc_name]_vars

\* a call returned ok with pc_name "pcB" for "T2", its row holds "pcB", and
\* the task's pc_name has since been edited to "pcA"
C30_Witness ==
    \E p \in Deliveries : \E r \in ReqIds :
        /\ epc[p] = "done" /\ IsOk(eres[p])
        /\ eres[p].request_id = r /\ eres[p].task_id = "T2"
        /\ eres[p].pc_name = <<"pcB">>
        /\ queue[r] # NoRow
        /\ queue[r].pc_name = <<"pcB">>
        /\ tasks["T2"].pc_name = <<"pcA">>

(***************************************************************************)
(* admin_rerun_queue (admin.py): the status filter, the SELECT of the      *)
(* items with its ORDER BY and LIMIT, the SELECT of the counts, and the    *)
(* page context                                                            *)
(***************************************************************************)
\* number of rows in task_rerun_queue when the list is requested
NumListed == 3
ListIds == 1..NumListed

\* the spelling of the words a status parameter is compared with
Spell(word) ==
    CASE word = "queued" -> <<"q", "u", "e", "u", "e", "d">>
      [] word = "running" -> <<"r", "u", "n", "n", "i", "n", "g">>
      [] word = "done" -> <<"d", "o", "n", "e">>
      [] word = "failed" -> <<"f", "a", "i", "l", "e", "d">>
      [] word = "canceled" -> <<"c", "a", "n", "c", "e", "l", "e", "d">>
      [] word = "active" -> <<"a", "c", "t", "i", "v", "e">>
      [] word = "all" -> <<"a", "l", "l">>

\* status = (status or "active").strip().lower()
StatusParam(status) == lower(strip(OrText(status, Spell("active"))))

\* query strings of GET /admin/rerun-queue
StatusParams ==
    {<<>>, Spell("active"), <<"sp", "A", "C", "T", "I", "V", "E">>, Spell("all"),
     <<"A", "L", "L">>, Spell("queued"), <<"Q", "U", "E", "U", "E", "D">>,
     Spell("running"), <<"D", "o", "n", "e", "fw">>, Spell("failed"),
     Spell("canceled"), <<"p", "e", "n", "d", "i", "n", "g">>, <<"sp">>}

StatusAccepted(status) ==
    \/ status = Spell("active")
    \/ status = Spell("all")
    \/ \E word \in RERUN_STATUSES : status = Spell(word)

\* where_sql applied to one row
where_sql(status, row) ==
    IF status = Spell("active") THEN row.status \in {"queued", "running"}
    ELSE IF status = Spell("all") THEN TRUE
    ELSE status = Spell(row.status)

\* CASE q.status WHEN 'running' THEN 0 WHEN 'queued' THEN 1 ELSE 2 END
OrderCase_queuedFirst(status) ==
    IF status = "queued" THEN 0 ELSE IF status = "running" THEN 1 ELSE 2
OrderCase(status) ==
    IF status = "running" THEN 0 ELSE IF status = "queued" THEN 1 ELSE 2

\* ORDER BY CASE ..., q.requested_at DESC: row a may stand before row b
OrderBy_oldestFirst(a, b) ==
    \/ OrderCase(a.status) < OrderCase(b.status)
    \/ OrderCase(a.status) = OrderCase(b.status) /\ a.requested_at <= b.requested_at
OrderBy(a, b) ==
    \/ OrderCase(a.status) < OrderCase(b.status)
    \/ OrderCase(a.status) = OrderCase(b.status) /\ a.requested_at >= b.requested_at

Min(a, b) == IF a <= b THEN a ELSE b
LIMIT == 400

\* (q.requested_at AT TIME ZONE 'Asia/Tokyo')
AtTimeZoneJST(t) == IF t = NULL THEN NULL ELSE t + utcoffset(t)

\* one fetched record: the queue row joined with its task and its user
Item(q, tk, r) ==
    [request_id |-> r, status |-> q[r].status,
     requested_at_jst |-> AtTimeZoneJST(q[r].requested_at),
     original_pc_name |-> q[r].pc_name,
     task_id |-> q[r].task_id, task_name |-> tk[q[r].task_id].name,
     task_pc_name |-> tk[q[r].task_id].pc_name, user_id |-> q[r].user_id]

\* the results the SELECT may return: the joined rows that pass where_sql, in
\* any order the ORDER BY allows (rows with equal keys come in either order),
\* cut at LIMIT
Fetch(q, tk, us, status) ==
    LET ids == {r \in DOMAIN q : /\ q[r] # NoRow
                                /\ tk[q[r].task_id] # NoTask
                                /\ us[q[r].user_id] # NoRow
                                /\ where_sql(status, q[r])}
        n == Cardinality(ids)
    IN  {[i \in 1..Min(n, LIMIT) |-> Item(q, tk, s[i])] :
            s \in {o \in [1..n -> ids] :
                     /\ \A i, j \in 1..n : i # j => o[i] # o[j]
                     /\ \A i, j \in 1..n : i < j => OrderBy(q[o[i]], q[o[j]])}}

\* SELECT COUNT(*) FILTER (WHERE status=...) ..., COUNT(*) AS all FROM
\* task_rerun_queue
Counts(q) ==
    LET n(word) == Cardinality({r \in DOMAIN q : q[r] # NoRow /\ q[r].status = word})
    IN  [queued |-> n("queued"), running |-> n("running"), done |-> n("done"),
         failed |-> n("failed"), canceled |-> n("canceled"),
         all |-> Cardinality({r \in DOMAIN q : q[r] # NoRow})]

TemplateResponse(status, items, counts) ==
    [handler |-> "admin_rerun_queue", status |-> 200,
     context |-> [items |-> items, status |-> status, counts |-> counts]]

\* the status check and `items = await conn.fetch(sql, *args)`
admin_rerun_queue_items(a, status) ==
    /\ apc[a] = "idle"
    /\ served' = served + 1
    /\ IF ~StatusAccepted(StatusParam(status))
       THEN /\ resp' = [handler |-> "admin_rerun_queue", status |-> 400,
                        detail |-> "invalid status"]
            /\ UNCHANGED <<apc, aloc>>
       ELSE \E items \in Fetch(queue, tasks, users, StatusParam(status)) :
              Await(a, "rerun_queue", [status |-> StatusParam(status), items |-> items])
    /\ UNCHANGED <<tasks, nextTask, queue, nextId, now, enqVars, cancelVars, deleteVars,
                   held, stripeVars, lineVars>>

\* `counts = await conn.fetchrow(...)` and the page
admin_rerun_queue_counts(a) ==
    /\ apc[a] = "rerun_queue"
    /\ UNCHANGED served
    /\ resp' = TemplateResponse(aloc[a].status, aloc[a].items, Counts(queue))
    /\ apc' = [apc EXCEPT ![a] = "idle"]
    /\ aloc' = [aloc EXCEPT ![a] = NoResult]
    /\ UNCHANGED <<tasks, nextTask, queue, nextId, now, enqVars, cancelVars, deleteVars,
                   held, stripeVars, lineVars>>

\* a row of task_rerun_queue in the given status, with the stamps the
\* handlers and the runner leave on the way to it
ListRow(tk, t, status, at) ==
    [task_id |-> t, user_id |-> tk[t].user_id, pc_name |-> tk[t].pc_name,
     requested_by |-> DisplayName(tk[t].user_id), requested_at |-> at,
     status |-> status,
     locked_at |-> IF status \in {"running", "done", "failed"} THEN at ELSE NULL,
     locked_by |-> IF status \in {"running", "done", "failed"}
                   THEN tk[t].pc_name ELSE NullText,
     started_at |-> IF status \in {"running", "done", "failed"} THEN at ELSE NULL,
     finished_at |-> IF status \in TerminalStatuses THEN at ELSE NULL,
     exit_code |-> IF status = "done" THEN 0 ELSE IF status = "failed" THEN 1 ELSE NULL]

\* queue contents the unique index uq_rerun_active_task admits
ListedQueues(tk) ==
    LET rows == {NoRow} \cup {ListRow(tk, t, st, at) :
                    t \in SeedTaskIds, st \in RERUN_STATUSES, at \in Start..MaxNow}
    IN  {q \in [ListIds -> rows] :
           \A t \in TaskIds :
             Cardinality({r \in ListIds : /\ q[r] # NoRow
                                          /\ q[r].task_id = t
                                          /\ q[r].status \in ActiveStatuses}) <= 1}

ListInit ==
    /\ tasks = TaskSeed([t \in TaskIds |-> TRUE])
    /\ queue \in ListedQueues(tasks)
    /\ nextId = 1
    /\ now = MaxNow
    /\ epc = [p \in Deliveries |-> "start"]
    /\ erow = [p \in Deliveries |-> NoResult]
    /\ eres = [p \in Deliveries |-> NoResult]
    /\ cpc = "idle" /\ crid = 0
    /\ dpc = "idle" /\ drid = 0
    /\ resp = NoResult
    /\ held = {}
    /\ secret = "whsec"
    /\ utcnow \in UtcNowValues
    /\ StripeIdle
    /\ LineIdle
    /\ AdminIdle

\* the page is requested, and between its two statements the admin cancels
\* requests
ListNext ==
    \/ \E status \in StatusParams : served < MaxServed /\ admin_rerun_queue_items(1, status)
    \/ admin_rerun_queue_counts(1)
    \/ \E r \in ListIds : apc[1] = "rerun_queue" /\ admin_cancel_rerun_select(r)
    \/ admin_cancel_rerun_update

SpecList == ListInit /\ [][ListNext]_vars

(***************************************************************************)
(* Properties of the rerun list                                            *)
(***************************************************************************)
\* the filters the list accepts and the statuses each of them selects
ListFilters == {Spell("active"), Spell("all")} \cup {Spell(st) : st \in RERUN_STATUSES}
Selects(filter, status) ==
    \/ filter = Spell("all")
    \/ filter = Spell("active") /\ status \in {"queued", "running"}
    \/ filter = Spell(status)

\* the three groups of the list order
SameGroup(a, b) ==
    \/ a = "running" /\ b = "running"
    \/ a = "queued" /\ b = "queued"
    \/ a \notin {"running", "queued"} /\ b \notin {"running", "queued"}

\* the page request fetches its items in this step
FetchesItems == apc[1] = "idle" /\ apc'[1] = "rerun_queue"

\* C31: the rerun list rejects a filter that is not active, all or a status;
\* otherwise every request the list fetches is a row of the queue whose
\* status the filter selects, no request that is not running stands before a
\* running one, none that is neither running nor queued before a queued one,
\* and within running, within queued and within the rest the requests stand
\* by requested_at, newest first; the page shows the items as fetched.
C31_ListFilterAndOrder ==
    /\ [][served' # served =>
            \A status \in StatusParams :
              admin_rerun_queue_items(1, status) =>
                IF StatusParam(status) \notin ListFilters
                THEN resp'.status = 400 /\ apc'[1] = "idle"
                ELSE FetchesItems /\ aloc'[1].status = StatusParam(status)]_vars
    /\ [][FetchesItems =>
            /\ aloc'[1].status \in ListFilters
            /\ LET items == aloc'[1].items IN
               /\ \A r \in ListIds :
                    (queue[r] # NoRow /\ Selects(aloc'[1].status, queue[r].status))
                    => \E i \in 1..Len(items) : items[i].request_id = r
               /\ \A i \in 1..Len(items) :
                    /\ queue[items[i].request_id] # NoRow
                    /\ queue[items[i].request_id].status = items[i].status
                    /\ Selects(aloc'[1].status, items[i].status)
               /\ \A i, j \in 1..Len(items) : i < j =>
                    /\ items[i].request_id # items[j].request_id
                    /\ items[j].status = "running" => items[i].status = "running"
                    /\ items[j].status = "queued" =>
                          items[i].status \in {"running", "queued"}
                    /\ SameGroup(items[i].status, items[j].status) =>
                          queue[items[i].request_id].requested_at
                            >= queue[items[j].request_id].requested_at]_vars
    /\ [][admin_rerun_queue_counts(1) =>
            /\ resp'.status = 200
            /\ resp'.context.status = aloc[1].status
            /\ resp'.context.items = aloc[1].items]_vars

\* the list of all requests shows a running one and then two finished ones,
\* the newer first, in an order that is not the order of their request_ids
C31_Witness ==
    /\ "context" \in DOMAIN resp
    /\ resp.context.status = Spell("all")
    /\ LET items == resp.context.items IN
       /\ Len(items) = 3
       /\ items[1].status = "running" /\ items[1].request_id = 3
       /\ items[2].status = "done" /\ items[3].status = "canceled"
       /\ items[2].requested_at_jst > items[3].requested_at_jst
       /\ items[2].request_id = 2

(***************************************************************************)
(* Further properties of the payment webhook                               *)
(***************************************************************************)
\* C32: the entitlement update of a payment event is one step that sets
\* payment_date, payment_amount and expires_at of the event's task together
\* (expires_at becomes the expiry the delivery computed, and keeps its value
\* when that is None) and stamps the row's updated_at; a Task row changes in
\* no other way, no other Task row changes in that step, and a task has a
\* payment date exactly when it has a payment amount.
C32_OneAtomicUpdate ==
    /\ [][\A d \in StripeDeliveries : Updates(d) =>
            LET t == sloc[d].task_id_str[1] IN
            /\ tasks'[t].payment_date = date(astimezone(sloc[d].created_ts))
            /\ tasks'[t].payment_amount = sloc[d].payment_amount
            /\ tasks'[t].expires_at =
                 IF sloc[d].new_expires_at = NoInstant
                 THEN tasks[t].expires_at ELSE sloc[d].new_expires_at
            /\ tasks'[t].updated_at = now
            /\ \A u \in TaskIds \ {t} : tasks'[u] = tasks[u]]_vars
    /\ [][\A t \in TaskIds : tasks'[t] # tasks[t] =>
            \E d \in StripeDeliveries :
               /\ Updates(d)
               /\ sloc[d].task_id_str = <<t>>
               /\ tasks[t] # NoTask /\ tasks'[t] # NoTask
               /\ tasks'[t].payment_date # NoDate
               /\ tasks'[t].payment_amount # NullText
               /\ \A f \in DOMAIN tasks[t] \ {"payment_date", "payment_amount",
                                                 "expires_at", "updated_at"} :
                     tasks'[t][f] = tasks[t][f]]_vars
    /\ [](\A t \in TaskIds : tasks[t] # NoTask =>
            (tasks[t].payment_date = NoDate <=> tasks[t].payment_amount = NullText))

\* "T1" carries the payment date, amount, expiry and time of the update of
\* an applied 3-month event paid 2024-01-31, while "T2" is as it was created
C32_Witness ==
    \E d \in StripeDeliveries :
        /\ Applied(d)
        /\ sloc[d].plan = <<"3", "m">>
        /\ tasks["T1"].payment_date = [year |-> 2024, month |-> 1, day |-> 31]
        /\ tasks["T1"].payment_amount = <<"1", "2", "0", "0", "0", "sp", "J", "P", "Y">>
        /\ tasks["T1"].expires_at = sloc[d].new_expires_at
        /\ tasks["T1"].expires_at = Instant(1714471200)
        /\ tasks["T1"].updated_at = now /\ tasks["T1"].updated_at # tasks["T1"].created_at
        /\ tasks["T2"].payment_date = NoDate
        /\ tasks["T2"].expires_at = NoInstant
        /\ tasks["T2"].updated_at = tasks["T2"].created_at

(***************************************************************************)
(* The queue handlers and the payment webhook side by side: chat users     *)
(* enqueue, the admin cancels and deletes requests, and correctly signed   *)
(* checkout events for "T1" arrive                                         *)
(***************************************************************************)
FrameBodies ==
    {Event("evt_1", "checkout.session.completed", <<"T1", "_", "3", "m">>,
           JsonInt(1706695200)),
     Event("evt_2", "checkout.session.completed", <<"T1", "_", "6", "m">>,
           JsonInt(1714521600))}

QueueOperation ==
    \/ \E p \in Deliveries, u \in Users, n \in TypedNames : enqueue_rerun_find(p, u, n)
    \/ \E p \in Deliveries : enqueue_rerun_insert(p)
    \/ \E r \in ReqIds : admin_cancel_rerun_select(r)
    \/ admin_cancel_rerun_update
    \/ \E r \in ReqIds : admin_delete_rerun_select(r)
    \/ admin_delete_rerun_delete

PaymentWebhook ==
    \/ \E d \in StripeDeliveries : stripe_webhook_start(d)
    \/ \E d \in StripeDeliveries, raw \in FrameBodies :
          stripe_webhook_verify(d, SignedHeader(raw, secret, utcnow), raw)
    \/ \E d \in StripeDeliveries : stripe_webhook_insert(d)
    \/ \E d \in StripeDeliveries : stripe_webhook_locals(d)
    \/ \E d \in StripeDeliveries : stripe_webhook_select(d)
    \/ \E d \in StripeDeliveries : stripe_webhook_update(d)

FrameNext == QueueOperation \/ PaymentWebhook

SpecFrame == Init /\ [][FrameNext]_vars

\* C33: no step of enqueue_rerun, admin_cancel_rerun or admin_delete_rerun
\* changes a Task row, and no step of the payment webhook changes a row of
\* task_rerun_queue.
C33_QueueAndPaymentsDisjoint ==
    /\ [][QueueOperation => tasks' = tasks]_vars
    /\ [][PaymentWebhook => queue' = queue]_vars

\* a request was admitted and then canceled, another request was deleted
\* last, and a payment for "T1" has been applied
C33_Witness ==
    /\ \E p \in Deliveries : epc[p] = "done" /\ IsOk(eres[p])
    /\ \E r \in ReqIds : queue[r] # NoRow /\ queue[r].status = "canceled"
    /\ resp = Response("admin_delete_rerun", 303)
    /\ \E d \in StripeDeliveries : Applied(d)
    /\ tasks["T1"].payment_date \in {[year |-> 2024, month |-> 1, day |-> 31],
                                      [year |-> 2024, month |-> 5, day |-> 1]}
    /\ tasks["T1"].expires_at \in {Instant(1714471200), Instant(1730419200)}

\* the calendar date at UTC+9 of an instant: its UTC date, or the day after
\* from 15:00 UTC on
TokyoDate(ts) ==
    LET c == CivilFromDays(ts \div 86400 + (IF ts % 86400 >= 15 * 3600 THEN 1 ELSE 0))
    IN  [year |-> c.year, month |-> c.month, day |-> c.day]

\* Japan kept summer time, UTC+10, in four summers: from 1948-05-01,
\* 1949-04-02, 1950-05-06 and 1951-05-05, 15:00 UTC, to 1948-09-11,
\* 1949-09-10, 1950-09-09 and 1951-09-08, 15:00 UTC
SummerTimes ==
    {<<-683802000, -672310800>>, <<-654771600, -640861200>>,
     <<-620298000, -609411600>>, <<-588848400, -577962000>>}
InSummerTime(ts) == \E w \in SummerTimes : w[1] <= ts /\ ts < w[2]

\* the calendar date at UTC+10 of an instant: the day after its UTC date from
\* 14:00 UTC on
SummerDate(ts) ==
    LET c == CivilFromDays(ts \div 86400 + (IF ts % 86400 >= 14 * 3600 THEN 1 ELSE 0))
    IN  [year |-> c.year, month |-> c.month, day |-> c.day]

\* the Asia/Tokyo calendar date of an instant
ZoneDate(ts) == IF InSummerTime(ts) THEN SummerDate(ts) ELSE TokyoDate(ts)

\* the creation timestamp an event carries: that of the session object, or
\* that of the event when the session object has none
Carried(e) ==
    IF e.data.object.created # JsonNull THEN e.data.object.created ELSE e.created

\* values Python takes for false: null, false, 0, 0.0, ""
Falsy(j) == j \in {JsonNull, JsonBool(FALSE), JsonInt(0), JsonFloat(0, 0), JsonStr(<<>>)}

\* the creation timestamp the handler goes by: that of the session object
\* unless it is falsy, else that of the event
GoneBy(e) ==
    IF ~Falsy(e.data.object.created) THEN e.data.object.created ELSE e.created

\* delivery d computes its payment_date in this step
Dates(d) == spc[d] \in {"body", "locals"} /\ spc'[d] = "select"

\* C34 as stated: the payment_date computed for a verified checkout event is
\* the Asia/Tokyo date of the creation timestamp the event carries, and of
\* the processing time when it carries none.
C34_PaymentDateOfCreation ==
    [][\A d \in StripeDeliveries : Dates(d) =>
          LET created == Carried(sevent'[d]) IN
          /\ created.json = "int" => sloc'[d].payment_date = TokyoDate(created.int)
          /\ created.json = "null" => sloc'[d].payment_date = TokyoDate(utcnow)]_vars

\* C34: the creation timestamp gone by is the session object's unless that
\* is falsy, else the event's.  When it is truthy and int() and
\* datetime.fromtimestamp accept it, the payment_date computed, and written
\* to the task, is the Asia/Tokyo date of that instant: at UTC+9 the next day
\* from 15:00 UTC on, in the summers of 1948 to 1951 at UTC+10 the next day
\* from 14:00 UTC on.  When it is falsy, or int() or fromtimestamp reject
\* it, payment_date is the Asia/Tokyo date of the clock at that step.  An
\* instant of the last nine hours of the year 9999 gives no payment_date: the
\* request fails with status 500.
C34_PaymentDateIsTokyoDate ==
    /\ [][\A d \in StripeDeliveries : Dates(d) =>
            LET created == GoneBy(sevent'[d]) IN
            /\ (created.json = "int" /\ created.int # 0) =>
                  sloc'[d].payment_date = ZoneDate(created.int)
            /\ (created.json = "int" /\ created.int # 0 /\ ~InSummerTime(created.int)) =>
                  sloc'[d].payment_date = TokyoDate(created.int)
            /\ created = JsonInt(-616929800) =>
                  sloc'[d].payment_date = [year |-> 1950, month |-> 6, day |-> 15]
            /\ (created.json = "float" /\ ~Falsy(created)) =>
                  sloc'[d].payment_date = TokyoDate(created.whole)
            /\ created = JsonBool(TRUE) => sloc'[d].payment_date = TokyoDate(1)
            /\ (created \in {JsonStr(<<"1", "7">>), JsonStr(<<"sp", "+", "1", "_", "7">>)}) =>
                  sloc'[d].payment_date = TokyoDate(17)
            /\ (Falsy(created)
                \/ created \in {JsonStr(<<"s", "o", "o", "n">>),
                                 JsonStr(<<"1", "_", "_", "7">>),
                                 JsonBigInt("out_of_range")}) =>
                  sloc'[d].payment_date = TokyoDate(utcnow)
            /\ created # JsonBigInt("last_hours")]_vars
    /\ [](\A d \in StripeDeliveries :
            (spc[d] = "raised" /\ sloc[d] = NoResult) =>
               /\ GoneBy(sevent[d]) = JsonBigInt("last_hours")
               /\ sres[d] = [status_code |-> 500, detail |-> "Internal Server Error"])
    /\ [][\A d \in StripeDeliveries : Updates(d) =>
            tasks'[sloc[d].task_id_str[1]].payment_date = sloc[d].payment_date]_vars

\* an event created 2024-01-31 15:00:00 UTC has been applied and "T1" is
\* dated 2024-02-01
C34_Witness ==
    \E d \in StripeDeliveries :
        /\ Applied(d)
        /\ sevent[d].data.object.created = JsonInt(1706713200)
        /\ tasks["T1"].payment_date = [year |-> 2024, month |-> 2, day |-> 1]

\* expires_at of a task that had expiry ex after the events of deliveries d
\* and e were handled one after the other, d first
AfterBoth(ex, d, e) ==
    LET first == COALESCE(NewExpiresAt(sloc[d].plan, sloc[d].created_ts, ex), ex)
    IN  COALESCE(NewExpiresAt(sloc[e].plan, sloc[e].created_ts, first), first)

\* both deliveries carried events with different event_ids and recognized
\* plan codes for "T1" and both have applied their update
BothApplied(d, e) ==
    /\ d # e
    /\ Applied(d) /\ Applied(e)
    /\ sevent[d].id # "" /\ sevent[e].id # "" /\ sevent[d].id # sevent[e].id
    /\ sloc[d].task_id_str = <<"T1">> /\ sloc[e].task_id_str = <<"T1">>
    /\ PlanRecognized(sloc[d].plan) /\ PlanRecognized(sloc[e].plan)

\* C36: when two deliveries with distinct event_ids and recognized plan codes
\* for the same task have both been applied, in whatever interleaving of
\* their SELECT and UPDATE statements, the task's expires_at is what handling
\* the two events one after the other, in one of the two orders, produces
\* from an expiry the task can have had before them.
C36_NoLostExtension ==
    \A d, e \in StripeDeliveries :
        BothApplied(d, e) =>
           \E ex \in ExpiryValues :
              tasks["T1"].expires_at \in {AfterBoth(ex, d, e), AfterBoth(ex, e, d)}

\* ---------------------------------------------------------------------------
\* C37: while the runner holds a claimed request for a task (it set the row to
\* running and has not reported done or failed), no enqueue for that task is
\* admitted, whatever the admin's cancel and delete requests do in between.
HeldFor(task_id) ==
    {r \in held : queue[r] # NoRow /\ queue[r].task_id = task_id}

Admits(p) ==
    /\ epc[p] = "insert"
    /\ epc'[p] = "done"
    /\ "ok" \in DOMAIN eres'[p]
    /\ eres'[p].ok

C37_NoAdmissionWhileHeld ==
    [][\A p \in Deliveries :
          Admits(p) => HeldFor(erow[p].task_id) = {}]_vars

(***************************************************************************)
(* record_user (main.py): the in-memory list of seen users.  The handler   *)
(* of /line/webhook calls it once per event; it scans SEEN_USERS, and when *)
(* the user is not listed it awaits fetch_line_profile (an HTTP request,   *)
(* where the event loop runs other deliveries) and then appends.           *)
(***************************************************************************)
MaxSeen == 3

SeenEventTypes == {"follow", "message"}

\* fetch_line_profile: the profile, or {} on any failure
Profiles == {[displayName |-> "user"], [none |-> TRUE]}

\* profile.get("displayName", "unknown")
userNameOf(profile) ==
    IF "displayName" \in DOMAIN profile THEN profile.displayName ELSE "unknown"

\* index of the first entry of SEEN_USERS for user_id, 0 when there is none
FirstEntry(user_id) ==
    LET hits == {i \in DOMAIN SEEN_USERS : SEEN_USERS[i].userId = user_id}
    IN IF hits = {} THEN 0 ELSE CHOOSE i \in hits : \A j \in hits : i <= j

Fetching == {d \in Deliveries : rpc[d] = "fetch"}

\* the for loop: update the first matching entry and return, else go on to
\* the await
record_user_scan(d, user_id, event_type) ==
    /\ rpc[d] = "start"
    /\ LET i == FirstEntry(user_id) IN
       IF i # 0
       THEN /\ SEEN_USERS' = [SEEN_USERS EXCEPT ![i].event = event_type,
                                                ![i].time = now]
            /\ UNCHANGED <<rpc, rloc>>
       ELSE /\ Len(SEEN_USERS) + Cardinality(Fetching) < MaxSeen
            /\ rpc' = [rpc EXCEPT ![d] = "fetch"]
            /\ rloc' = [rloc EXCEPT ![d] = [user_id |-> user_id,
                                            event_type |-> event_type]]
            /\ UNCHANGED SEEN_USERS
    /\ UNCHANGED <<tasks, queueVars, stripeVars, adminVars, chatVars>>

\* fetch_line_profile has returned: SEEN_USERS.append({...})
record_user_append(d, profile) ==
    /\ rpc[d] = "fetch"
    /\ SEEN_USERS' = Append(SEEN_USERS,
                            [userId |-> rloc[d].user_id,
                             userName |-> userNameOf(profile),
                             event |-> rloc[d].event_type,
                             time |-> now])
    /\ rpc' = [rpc EXCEPT ![d] = "start"]
    /\ rloc' = [rloc EXCEPT ![d] = NoResult]
    /\ UNCHANGED <<tasks, queueVars, stripeVars, adminVars, chatVars>>

SeenNext ==
    \/ \E d \in Deliveries, u \in Users, e \in SeenEventTypes : record_user_scan(d, u, e)
    \/ \E d \in Deliveries, profile \in Profiles : record_user_append(d, profile)
    \/ Tick

SpecSeen == Init /\ [][SeenNext]_vars

\* ---------------------------------------------------------------------------
\* C40: the seen-user list holds at most one entry per userId after any
\* interleaving of deliveries, and a delivery for a listed user only updates
\* that entry's event and time.
EntriesOf(user_id) ==
    {i \in DOMAIN SEEN_USERS : SEEN_USERS[i].userId = user_id}

C40_NoDuplicateSeenUser ==
    \A u \in Users : Cardinality(EntriesOf(u)) <= 1

(***************************************************************************)
(* line_webhook (routers/webhook.py): the chat webhook.  A text is a       *)
(* sequence of characters; "rerun" stands for the suffix the rerun command *)
(* ends with.  Each delivery carries one event.  The LINE reply transport   *)
(* touches no state of this program; lsent records what is handed to       *)
(* reply_message.  set_user_rich_menu sends its two requests to LINE, and  *)
(* the handler is suspended meanwhile, when the menu it is to link is      *)
(* configured: rich_menus holds "preagree" when LINE_RICH_MENU_PREAGREE_ID *)
(* and LINE_CHANNEL_ACCESS_TOKEN are set, "main" when LINE_RICH_MENU_MAIN_ID *)
(* and the token are; otherwise it returns at once.                        *)
(***************************************************************************)
\* parse_rerun_command: the name before the suffix, <<>> for None
parse_rerun_command(text) ==
    LET t == strip(text) IN
    IF t = <<>> THEN <<>>
    ELSE IF t[Len(t)] # "rerun" THEN <<>>
    ELSE strip(SubSeq(t, 1, Len(t) - 1))

\* is_tasks_command: "kTA", "kSU", "kKU" are the katakana and "hTA", "hSU",
\* "hKU" the hiragana of the two kana spellings
TasksWords ==
    {<<"t", "a", "s", "k", "s">>, <<"t", "a", "s", "k">>,
     <<"kTA", "kSU", "kKU">>, <<"hTA", "hSU", "hKU">>}
is_tasks_command(text) == lower(strip(OrText(text, <<>>))) \in TasksWords

\* _has_agreed_current_terms
has_agreed_any_terms(user_id, current_ver) ==
    /\ users[user_id] # NoRow
    /\ users[user_id].agreed_terms_version # NullText
has_agreed_current_terms(user_id, current_ver) ==
    /\ users[user_id] # NoRow
    /\ strip(OrNull(users[user_id].agreed_terms_version, <<>>)) = current_ver

\* the messages line_webhook hands to reply_message
TermsFlex(current_ver) == [type |-> "flex", kind |-> "terms", ver |-> current_ver]
TasksFlex(display_name, rows) == [type |-> "flex", kind |-> "tasks", tasks |-> rows]
TaskDetailFlex(display_name, task_id) ==
    [type |-> "flex", kind |-> "task_detail", task_id |-> task_id]
TextMessage(kind, task_name) == [type |-> "text", kind |-> kind, name |-> task_name]

\* the text chosen from the result of enqueue_rerun
RerunMessage(result, task_name) ==
    IF result.ok THEN TextMessage("queued", task_name)
    ELSE IF result.reason = "not_found" THEN TextMessage("not_found", task_name)
    ELSE IF result.reason = "disabled" THEN TextMessage("disabled", task_name)
    ELSE IF result.reason = "already_pending" THEN TextMessage("already_pending", task_name)
    ELSE TextMessage("failed", <<>>)

\* fetch_tasks_for_user: the results ORDER BY created_at DESC LIMIT 50 may
\* give; rows of equal created_at come in either order
fetch_tasks_for_user(user_id) ==
    LET S == {t \in TaskIds : tasks[t] # NoTask /\ tasks[t].user_id = user_id}
        n == Cardinality(S)
        orders == {q \in [1..n -> S] :
                     /\ \A i, j \in 1..n : i # j => q[i] # q[j]
                     /\ \A i, j \in 1..n :
                           i < j => tasks[q[i]].created_at >= tasks[q[j]].created_at}
    IN  {SubSeq(q, 1, Min(n, 50)) : q \in orders}

\* fetch_task_detail_for_user
fetch_task_detail_for_user(user_id, task_id) ==
    tasks[task_id] # NoTask /\ tasks[task_id].user_id = user_id

\* events of a webhook payload
ChatEvent(type, token, user_id, mtype, text, action, ver, task_id) ==
    [type |-> type, replyToken |-> token, user_id |-> user_id, mtype |-> mtype,
     text |-> text, action |-> action, ver |-> ver, task_id |-> task_id]

TextEvent(user_id, text) ==
    ChatEvent("message", TRUE, user_id, "text", text, "", <<>>, "")
PostbackEvent(user_id, action, ver, task_id) ==
    ChatEvent("postback", TRUE, user_id, "", <<>>, action, ver, task_id)

ChatTexts ==
    {<<"sp", "a", "sp", "rerun", "sp">>, <<"a", "fw", "b", "rerun">>,
     <<"b", "rerun">>, <<"rerun">>, <<"sp", "T", "a", "s", "k", "s">>,
     <<"kTA", "kSU", "kKU", "fw">>, <<"a">>}

ChatEvents ==
    {TextEvent("U1", text) : text \in ChatTexts}
    \cup {TextEvent("U2", <<"a", "rerun">>)}
    \cup {PostbackEvent("U1", "agree_terms", v, "") :
            v \in {<<>>, <<"1.0">>, <<"1.1">>, <<"sp", "1.1">>}}
    \cup {PostbackEvent("U1", "task_detail", <<>>, t) : t \in {"", "T1"}}
    \cup {ChatEvent("follow", TRUE, "U1", "", <<>>, "", <<>>, ""),
          ChatEvent("message", TRUE, "U1", "sticker", <<>>, "", <<>>, ""),
          ChatEvent("message", FALSE, "U1", "text", <<"a", "rerun">>, "", <<>>, "")}

\* upsert_user_from_profile: INSERT ... ON CONFLICT (user_id) DO UPDATE
upsert_user_from_profile(us, user_id) ==
    IF us[user_id] = NoRow
    THEN [us EXCEPT ![user_id] = [agreed_terms_version |-> NullText,
                                  agreed_terms_at |-> NULL, last_seen_at |-> now]]
    ELSE [us EXCEPT ![user_id].last_seen_at = now]

Reply(d, message) == lsent' = [lsent EXCEPT ![d] = Append(lsent[d], message)]
Goto(d, position) == lpc' = [lpc EXCEPT ![d] = position]

\* await set_user_rich_menu(user_id, agreed=False) and the terms prompt after
\* it: the prompt is handed over in the same step unless the handler is
\* suspended for the requests to LINE
PromptTerms(d) ==
    IF "preagree" \in rich_menus
    THEN Goto(d, "preagree_menu") /\ UNCHANGED lsent
    ELSE Reply(d, TermsFlex(current_terms_version)) /\ Goto(d, "done")

\* await set_user_rich_menu(user_id, agreed=True), the last statement of the
\* agree_terms branch
AfterAgreed(d) ==
    IF "main" \in rich_menus THEN Goto(d, "main_menu") ELSE Goto(d, "done")

\* from the top of the loop body to the first statement after the upserts
line_webhook_receive(d, ev) ==
    /\ lpc[d] = "start"
    /\ lev' = [lev EXCEPT ![d] = ev]
    /\ IF ~ev.replyToken
       THEN \* continue before any statement
            /\ Goto(d, "done")
            /\ UNCHANGED <<users, lsent>>
       ELSE /\ users' = upsert_user_from_profile(users, ev.user_id)
            /\ IF ev.type = "follow"
               THEN PromptTerms(d)
               ELSE IF ev.type = "postback"
               THEN IF ev.action = "task_detail"
                    THEN IF ev.task_id = ""
                         THEN Reply(d, TextMessage("no_task_id", <<>>)) /\ Goto(d, "done")
                         ELSE Goto(d, "task_detail") /\ UNCHANGED lsent
                    ELSE IF ev.action = "agree_terms"
                         THEN Goto(d, "agree_select") /\ UNCHANGED lsent
                         ELSE Goto(d, "done") /\ UNCHANGED lsent
               ELSE IF ev.type # "message" \/ ev.mtype # "text"
               THEN Goto(d, "done") /\ UNCHANGED lsent
               ELSE Goto(d, "gate") /\ UNCHANGED lsent
    /\ UNCHANGED <<tasks, queueVars, stripeVars, adminVars, terms_agreements, seenVars, rich_menus>>

\* fetch_task_detail_for_user and the reply
line_webhook_task_detail(d) ==
    /\ lpc[d] = "task_detail"
    /\ IF fetch_task_detail_for_user(lev[d].user_id, lev[d].task_id)
       THEN Reply(d, TaskDetailFlex(DisplayName(lev[d].user_id), lev[d].task_id))
       ELSE Reply(d, TextMessage("task_not_found", <<>>))
    /\ Goto(d, "done")
    /\ UNCHANGED <<tasks, queueVars, stripeVars, adminVars, users, terms_agreements, lev, seenVars, rich_menus>>

\* agreed_ver = (pb.get("ver") or current_ver).strip() or current_ver
agreed_ver(ev) ==
    OrText(strip(OrText(ev.ver, current_terms_version)), current_terms_version)

\* SELECT agreed_terms_version FROM users and the early continue
line_webhook_agree_select(d) ==
    /\ lpc[d] = "agree_select"
    /\ LET row == users[lev[d].user_id] IN
       IF row # NoRow /\ strip(OrNull(row.agreed_terms_version, <<>>)) = agreed_ver(lev[d])
       THEN AfterAgreed(d)
       ELSE Goto(d, "agree_insert")
    /\ UNCHANGED <<tasks, queueVars, stripeVars, adminVars, users, terms_agreements,
                   lev, lsent, seenVars, rich_menus>>

HasAgreement(ta, user_id, ver) ==
    \E i \in AgreementIds :
        ta[i] # NoRow /\ ta[i].user_id = user_id /\ ta[i].terms_version = ver

\* INSERT INTO terms_agreements ... ON CONFLICT (user_id, terms_version) DO NOTHING
line_webhook_agree_insert(d) ==
    /\ lpc[d] = "agree_insert"
    /\ LET user_id == lev[d].user_id
           ver == agreed_ver(lev[d])
           free == {i \in AgreementIds : terms_agreements[i] = NoRow}
       IN  IF HasAgreement(terms_agreements, user_id, ver)
           THEN Goto(d, "agree_update") /\ UNCHANGED terms_agreements
           ELSE IF ver \notin TermsVersions \/ users[user_id] = NoRow
           THEN \* foreign keys of terms_agreements
                Goto(d, "raised") /\ UNCHANGED terms_agreements
           ELSE /\ terms_agreements' =
                      [terms_agreements EXCEPT
                          ![CHOOSE i \in free : \A j \in free : i <= j] =
                              [user_id |-> user_id, terms_version |-> ver,
                               agreed_at |-> now]]
                /\ Goto(d, "agree_update")
    /\ UNCHANGED <<tasks, queueVars, stripeVars, adminVars, users, lev, lsent, seenVars, rich_menus>>

\* UPDATE users SET agreed_terms_version, agreed_terms_at; then the reply
line_webhook_agree_update(d) ==
    /\ lpc[d] = "agree_update"
    /\ LET user_id == lev[d].user_id IN
       users' = IF users[user_id] = NoRow THEN users
                ELSE [users EXCEPT ![user_id].agreed_terms_version = agreed_ver(lev[d]),
                                   ![user_id].agreed_terms_at = now]
    /\ Reply(d, TextMessage("thanks", <<>>))
    /\ AfterAgreed(d)
    /\ UNCHANGED <<tasks, queueVars, stripeVars, adminVars, terms_agreements, lev, seenVars, rich_menus>>

\* the terms gate and the choice of the command
line_webhook_gate(d) ==
    /\ lpc[d] = "gate"
    /\ IF ~has_agreed_current_terms(lev[d].user_id, current_terms_version)
       THEN PromptTerms(d)
       ELSE IF is_tasks_command(lev[d].text)
       THEN Goto(d, "tasks") /\ UNCHANGED lsent
       ELSE IF parse_rerun_command(lev[d].text) # <<>>
       THEN Goto(d, "enqueue") /\ UNCHANGED lsent
       ELSE Reply(d, TextMessage("help", <<>>)) /\ Goto(d, "done")
    /\ UNCHANGED <<tasks, queueVars, stripeVars, adminVars, users, terms_agreements, lev, seenVars, rich_menus>>

\* set_user_rich_menu has returned: the terms prompt after the menu of those
\* who have not agreed, the end of the loop body after the main menu
line_webhook_rich_menu(d) ==
    /\ lpc[d] \in {"preagree_menu", "main_menu"}
    /\ IF lpc[d] = "preagree_menu"
       THEN Reply(d, TermsFlex(current_terms_version))
       ELSE UNCHANGED lsent
    /\ Goto(d, "done")
    /\ UNCHANGED <<tasks, queueVars, stripeVars, adminVars, users, terms_agreements, lev, seenVars, rich_menus>>

\* fetch_tasks_for_user and the reply
line_webhook_tasks(d) ==
    /\ lpc[d] = "tasks"
    /\ \E rows \in fetch_tasks_for_user(lev[d].user_id) :
          Reply(d, TasksFlex(DisplayName(lev[d].user_id), rows))
    /\ Goto(d, "done")
    /\ UNCHANGED <<tasks, queueVars, stripeVars, adminVars, users, terms_agreements, lev, seenVars, rich_menus>>

\* result = await enqueue_rerun(pool, user_id, task_name, ...)
line_webhook_enqueue_find(d) ==
    /\ lpc[d] = "enqueue"
    /\ enqueue_rerun_find(d, lev[d].user_id, parse_rerun_command(lev[d].text))

line_webhook_enqueue_insert(d) ==
    /\ lpc[d] = "enqueue"
    /\ enqueue_rerun_insert(d)

\* enqueue_rerun has returned: the reply chosen from its result
line_webhook_reply(d) ==
    /\ lpc[d] = "enqueue"
    /\ epc[d] = "done"
    /\ Reply(d, RerunMessage(eres[d], parse_rerun_command(lev[d].text)))
    /\ Goto(d, "done")
    /\ UNCHANGED <<tasks, queueVars, stripeVars, adminVars, users, terms_agreements, lev, seenVars, rich_menus>>

\* the users and terms_agreements tables after earlier agreements of U1
AgreementRow(user_id, ver) == [user_id |-> user_id, terms_version |-> ver, agreed_at |-> 0]
AgreementHistories ==
    {<<>>, << <<"1.0">> >>, << <<"1.1">> >>, << <<"1.0">>, <<"1.1">> >>}

\* "T1" alone, or "T1" and "T2" created at the same instant
ChatTasks ==
    {TaskSeed([t \in TaskIds |-> t = "T1"]),
     [TaskSeed([t \in TaskIds |-> TRUE]) EXCEPT !["T2"].created_at = 1]}

ChatInit ==
    /\ tasks \in ChatTasks
    /\ QueueIdle
    /\ secret = "whsec"
    /\ utcnow \in UtcNowValues
    /\ StripeIdle
    /\ SeenIdle
    /\ AdminIdle
    /\ lpc = [d \in Deliveries |-> "start"]
    /\ lev = [d \in Deliveries |-> NoResult]
    /\ lsent = [d \in Deliveries |-> <<>>]
    /\ rich_menus \in SUBSET {"preagree", "main"}
    /\ \E h \in AgreementHistories :
          /\ users = [u \in Users |->
                        IF u = "U1"
                        THEN [agreed_terms_version |->
                                  IF h = <<>> THEN NullText ELSE h[Len(h)],
                              agreed_terms_at |-> IF h = <<>> THEN NULL ELSE 0,
                              last_seen_at |-> 0]
                        ELSE NoRow]
          /\ terms_agreements =
                [i \in AgreementIds |->
                    IF i <= Len(h) THEN AgreementRow("U1", h[i]) ELSE NoRow]

ChatNext ==
    \/ \E d \in Deliveries, ev \in ChatEvents : line_webhook_receive(d, ev)
    \/ \E d \in Deliveries : line_webhook_task_detail(d)
    \/ \E d \in Deliveries : line_webhook_agree_select(d)
    \/ \E d \in Deliveries : line_webhook_agree_insert(d)
    \/ \E d \in Deliveries : line_webhook_agree_update(d)
    \/ \E d \in Deliveries : line_webhook_gate(d)
    \/ \E d \in Deliveries : line_webhook_rich_menu(d)
    \/ \E d \in Deliveries : line_webhook_tasks(d)
    \/ \E d \in Deliveries : line_webhook_enqueue_find(d)
    \/ \E d \in Deliveries : line_webhook_enqueue_insert(d)
    \/ \E d \in Deliveries : line_webhook_reply(d)
    \/ \E t \in TaskIds : served < MaxServed /\ admin_delete_task_select(1, t)
    \/ admin_delete_task_delete(1)

SpecChat == ChatInit /\ [][ChatNext]_vars

\* ---------------------------------------------------------------------------
\* C38: terms gate.  For a text message, enqueue and the tasks listing are
\* invoked only if the user's stored agreed_terms_version equals the current
\* terms version when the message is handled; otherwise the only reply is the
\* terms prompt and the delivery creates no queue row.
StoredVersion(user_id) ==
    IF users[user_id] = NoRow THEN NullText ELSE users[user_id].agreed_terms_version

Gated(d) == lev[d] # NoResult /\ lev[d].type = "message" /\ lev[d].mtype = "text"

C38_GateStep(d) ==
    /\ (lpc[d] # lpc'[d] /\ lpc'[d] \in {"tasks", "enqueue"}) =>
          /\ lpc[d] = "gate"
          /\ Gated(d)
          /\ StoredVersion(lev[d].user_id) = current_terms_version
    /\ (lpc[d] = "gate" /\ lpc'[d] # "gate"
          /\ StoredVersion(lev[d].user_id) # current_terms_version) =>
          /\ \/ lpc'[d] = "done" /\ lsent'[d] = <<TermsFlex(current_terms_version)>>
             \/ lpc'[d] = "preagree_menu" /\ lsent'[d] = <<>>
          /\ queue' = queue
    /\ (Gated(d) /\ lpc[d] = "preagree_menu" /\ lpc'[d] # lpc[d]) =>
          /\ lpc'[d] = "done"
          /\ lsent'[d] = <<TermsFlex(current_terms_version)>>
          /\ queue' = queue
    /\ (epc'[d] # epc[d]) => lpc[d] = "enqueue"
    /\ (\E m \in DOMAIN lsent'[d] : m \notin DOMAIN lsent[d] /\ lsent'[d][m].kind = "tasks")
          => lpc[d] = "tasks"

C38_TermsGate ==
    /\ [][\A d \in Deliveries : C38_GateStep(d)]_vars
    /\ [](\A d \in Deliveries :
             /\ (Gated(d) /\ lsent[d] = <<TermsFlex(current_terms_version)>>) =>
                   lpc[d] = "done" /\ epc[d] = "start"
             /\ (Gated(d) /\ lpc[d] = "preagree_menu") =>
                   lsent[d] = <<>> /\ epc[d] = "start")

\* with the menu of those who have not agreed configured, a text of a user
\* whose stored version is not the current one was answered with the terms
\* prompt, and another text went through enqueue
C38_Witness ==
    \E d1, d2 \in Deliveries :
        /\ "preagree" \in rich_menus
        /\ Gated(d1) /\ lsent[d1] = <<TermsFlex(current_terms_version)>>
        /\ StoredVersion(lev[d1].user_id) # current_terms_version
        /\ Gated(d2) /\ lpc[d2] = "done" /\ epc[d2] = "done"

\* ---------------------------------------------------------------------------
\* C35: for a text "<name><suffix>" with a non-empty name from a user who has
\* agreed to the current terms, the dispatcher calls enqueue once with the
\* trimmed name and sends exactly one reply, whose text is the one of the
\* result (ok, not_found, disabled, already_pending: four different texts);
\* a tasks command is never handled as a rerun.
NonSpace(text) == {i \in DOMAIN text : text[i] \notin {"sp", "tab", "lf", "fw"}}
First(S) == CHOOSE i \in S : \A j \in S : i <= j
Last(S) == CHOOSE i \in S : \A j \in S : j <= i

\* the text between its first and its last non-blank character
Trimmed(text) ==
    IF NonSpace(text) = {} THEN <<>>
    ELSE SubSeq(text, First(NonSpace(text)), Last(NonSpace(text)))

IsRerunText(text) ==
    LET t == Trimmed(text) IN
    /\ Len(t) >= 2
    /\ t[Len(t)] = "rerun"
    /\ NonSpace(SubSeq(t, 1, Len(t) - 1)) # {}

TrimmedName(text) == Trimmed(SubSeq(Trimmed(text), 1, Len(Trimmed(text)) - 1))

\* a tasks command: one of its four spellings, in either case
IsTasksText(text) ==
    lower(Trimmed(text)) \in {<<"t", "a", "s", "k", "s">>, <<"t", "a", "s", "k">>,
                              <<"kTA", "kSU", "kKU">>, <<"hTA", "hSU", "hKU">>}

KindOf(result) == IF result.ok THEN "queued" ELSE result.reason

\* the handler has ended: normally, or by an exception out of enqueue_rerun
Ended(d) == lpc[d] = "done" \/ (lpc[d] = "enqueue" /\ epc[d] = "raised")

C35_Calls(d) ==
    (epc[d] = "start" /\ epc'[d] # "start") =>
        /\ IsRerunText(lev[d].text)
        /\ enqueue_rerun_find(d, lev[d].user_id, TrimmedName(lev[d].text))

C35_RerunDispatch ==
    /\ [][\A d \in Deliveries : C35_Calls(d)]_vars
    /\ [](\A d \in Deliveries :
             /\ (lpc[d] = "enqueue" /\ Ended(d)) =>
                   lsent[d] # <<>>
             /\ (Gated(d) /\ lpc[d] = "done" /\ epc[d] # "start") =>
                   /\ epc[d] = "done"
                   /\ lsent[d] = <<[type |-> "text", kind |-> KindOf(eres[d]),
                                    name |-> TrimmedName(lev[d].text)]>>
                   /\ KindOf(eres[d]) \in
                         {"queued", "not_found", "disabled", "already_pending"}
             /\ (Gated(d) /\ IsTasksText(lev[d].text)) => epc[d] = "start")

\* ---------------------------------------------------------------------------
\* C39: agreeing to terms is idempotent.  An agree_terms postback for a version
\* the user has already agreed to records nothing and sends no reply; there is
\* at most one terms_agreements row per (user_id, terms_version); and
\* users.agreed_terms_version changes only to the version of a postback that
\* was not already agreed.
AgreePostback(d) ==
    lev[d] # NoResult /\ lev[d].type = "postback" /\ lev[d].action = "agree_terms"

AlreadyAgreed(d) ==
    HasAgreement(terms_agreements, lev[d].user_id, agreed_ver(lev[d]))

C39_Handles(d) ==
    (lpc[d] = "agree_select" /\ lpc'[d] # "agree_select" /\ AlreadyAgreed(d)) =>
        /\ lpc'[d] \in {"done", "main_menu"}
        /\ lsent'[d] = <<>>

C39_Caches(u) ==
    (StoredVersion(u)' # StoredVersion(u)) =>
        \E d \in Deliveries :
            /\ AgreePostback(d)
            /\ lev[d].user_id = u
            /\ lpc[d] = "agree_update"
            /\ StoredVersion(u)' = agreed_ver(lev[d])

C39_AgreeIdempotent ==
    /\ [][\A d \in Deliveries : C39_Handles(d)]_vars
    /\ [][\A u \in Users : C39_Caches(u)]_vars
    /\ [](\A i, j \in AgreementIds :
             (/\ terms_agreements[i] # NoRow
              /\ terms_agreements[j] # NoRow
              /\ terms_agreements[i].user_id = terms_agreements[j].user_id
              /\ terms_agreements[i].terms_version = terms_agreements[j].terms_version)
             => i = j)

====
